---------------------------- MODULE Spec2Model ----------------------------
(***************************************************************************)
(* Model of the synchronisation and reconciliation engine of yournote      *)
(* (backend/app/services/collector.py, publisher.py).                      *)
(*                                                                         *)
(* Conventions                                                             *)
(*  - a Python str is a run-length encoded sequence of [c, n] runs, so     *)
(*    that 100-character texts stay small; " " is whitespace, "bom" is     *)
(*    U+FEFF, any other c is an ordinary character;                        *)
(*  - Python None is NoneStr for texts, NoneTitle for short strings and    *)
(*    NoneInt for integers;                                                *)
(*  - a table is a sequence of rows, a row's primary key is its index;     *)
(*  - the whole database is one record db; every handler is an operator    *)
(*    from a database and the handler's inputs (upstream responses         *)
(*    included) to the database it leaves behind and its result.           *)
(***************************************************************************)
EXTENDS Integers, Sequences, FiniteSets, TLC

VARIABLES
    db,      \* committed database: diaries, history, events, fetches, ...
    req,     \* the handler call in progress (inputs included), or Idle
    out,     \* the last finished handler call: its inputs, the database it
             \* started from, what it returned and the requests it made
    ops,     \* number of handler calls made so far
    up,      \* upstream service state (message counts it reports)
    tasks    \* per-task session state of the interleaved runs

vars == <<db, req, out, ops, up, tasks>>

---------------------------------------------------------------------------
\* Bounds of the model

MaxOps == 2

MaxMsg == 1

\* largest message count of the ledger runs and of the upstream
MaxCount == 2

---------------------------------------------------------------------------
\* Program constants

_DETAIL_CONTENT_MIN_LEN == 100

---------------------------------------------------------------------------
\* Python values

NoneStr == <<[c |-> "None", n |-> 0]>>

NoneTitle == "None"

NoneInt == -1

EmptyStr == <<>>

Str(c, n) == <<[c |-> c, n |-> n]>>

Whitespace == {" "}

RECURSIVE StrLen(_)
StrLen(s) == IF s = <<>> THEN 0 ELSE Head(s).n + StrLen(Tail(s))

RECURSIVE LStrip(_, _)
LStrip(s, chars) ==
    IF s # <<>> /\ Head(s).c \in chars THEN LStrip(Tail(s), chars) ELSE s

RECURSIVE RStrip(_, _)
RStrip(s, chars) ==
    IF s # <<>> /\ s[Len(s)].c \in chars
    THEN RStrip(SubSeq(s, 1, Len(s) - 1), chars)
    ELSE s

\* str.strip(): leading and trailing whitespace goes; U+FEFF is not whitespace
Strip(s) == RStrip(LStrip(s, Whitespace), Whitespace)

\* str.strip("\ufeff")
StripBom(s) == RStrip(LStrip(s, {"bom"}), {"bom"})

\* `x or ""` for a text
OrEmpty(s) == IF s = NoneStr THEN EmptyStr ELSE s

\* `x or ""` for a short string
OrEmptyTitle(t) == IF t = NoneTitle THEN "" ELSE t

_content_len(content) == StrLen(Strip(OrEmpty(content)))

_needs_detail_fetch(content, is_simple) ==
    IF is_simple = 1 THEN TRUE
    ELSE _content_len(content) < _DETAIL_CONTENT_MIN_LEN

_normalize_msg_count(value) ==
    IF value = NoneInt THEN 0
    ELSE IF value >= 0 THEN value ELSE 0


---------------------------------------------------------------------------
\* Tables.  A Diary row carries its primary key in id; is_simple also stands
\* for the columns refresh_diary treats the same way (created_time, mood_id,
\* mood_color, space).

NoRow == [id |-> 0]

DiaryRow(id, nid, user_id, account_id, rec) ==
    [id |-> id, nideriji_diary_id |-> nid, user_id |-> user_id,
     account_id |-> account_id, title |-> rec.title, content |-> rec.content,
     weather |-> rec.weather, mood |-> rec.mood, is_simple |-> rec.is_simple,
     msg_count |-> _normalize_msg_count(rec.msg_count), ts |-> rec.ts]

\* select(...).scalar_one_or_none() over a table
\* scalar_one_or_none of the rows a select returned
OneOrNone(rows) == IF rows = <<>> THEN NoRow ELSE rows[1]

DiaryByNid(d, nid) ==
    LET P(r) == r.nideriji_diary_id = nid IN OneOrNone(SelectSeq(d.diaries, P))

UserByNid(d, uid) ==
    LET P(r) == r.nideriji_userid = uid IN OneOrNone(SelectSeq(d.users, P))

FetchStateOf(d, diary_id) ==
    LET P(r) == r.diary_id = diary_id IN OneOrNone(SelectSeq(d.fetches, P))

---------------------------------------------------------------------------
\* Message-count delta ledger

\* The conditional UPDATE of _cas_update_diary_msg_count: the rows it matches
\* an UPDATE that does not compare the stored count
CasMatches_AnyCount(d, diary_id, account_id, old_msg_count) ==
    {i \in DOMAIN d.diaries :
        d.diaries[i].id = diary_id /\ d.diaries[i].account_id = account_id}

\* an UPDATE that does not compare the account
CasMatches_AnyAccount(d, diary_id, account_id, old_msg_count) ==
    {i \in DOMAIN d.diaries :
        /\ d.diaries[i].id = diary_id
        /\ IF old_msg_count = 0
           THEN d.diaries[i].msg_count \in {0, NoneInt}
           ELSE d.diaries[i].msg_count = old_msg_count}

CasMatches(d, diary_id, account_id, old_msg_count) ==
    {i \in DOMAIN d.diaries :
        /\ d.diaries[i].id = diary_id
        /\ d.diaries[i].account_id = account_id
        /\ IF old_msg_count = 0
           THEN d.diaries[i].msg_count \in {0, NoneInt}
           ELSE d.diaries[i].msg_count = old_msg_count}

\* an event that names no sync log
MsgCountEvent_Unlinked(account_id, diary_id, sync_log_id, old, new, source) ==
    [account_id |-> account_id, diary_id |-> diary_id,
     sync_log_id |-> NoneInt, old_msg_count |-> old,
     new_msg_count |-> new, delta |-> new - old, source |-> source]

MsgCountEvent(account_id, diary_id, sync_log_id, old, new, source) ==
    [account_id |-> account_id, diary_id |-> diary_id,
     sync_log_id |-> sync_log_id, old_msg_count |-> old,
     new_msg_count |-> new, delta |-> new - old, source |-> source]

\* a ledger that records every change of the count
EventsAfterCas_AnyChange(events, account_id, diary_id, sync_log_id, old, new, source) ==
    Append(events,
           MsgCountEvent(account_id, diary_id, sync_log_id, old, new, source))

\* An event is added only for a positive delta
EventsAfterCas(events, account_id, diary_id, sync_log_id, old, new, source) ==
    IF new - old > 0
    THEN Append(events,
                MsgCountEvent(account_id, diary_id, sync_log_id, old, new, source))
    ELSE events

\* a CAS that writes the count and the event, and reports no success
_cas_update_diary_msg_count_Unreported(d, diary, account_id, new_msg_count, source, sync_log_id) ==
    LET old_msg_count == _normalize_msg_count(diary.msg_count)
        new_msg_count_norm == _normalize_msg_count(new_msg_count)
        hit == CasMatches(d, diary.id, account_id, old_msg_count)
    IN  IF diary.id <= 0 \/ Cardinality(hit) # 1
           \/ (diary.msg_count # NoneInt /\ new_msg_count_norm = old_msg_count)
        THEN [db |-> d, ok |-> FALSE]
        ELSE [db |-> [d EXCEPT
                        !.diaries = [i \in DOMAIN d.diaries |->
                            IF i \in hit
                            THEN [d.diaries[i] EXCEPT !.msg_count = new_msg_count_norm]
                            ELSE d.diaries[i]],
                        !.events = EventsAfterCas(d.events, account_id, diary.id,
                                       sync_log_id, old_msg_count,
                                       new_msg_count_norm, source)],
              ok |-> FALSE]

\* diary is the session's Diary object (its msg_count is the value it loaded)
_cas_update_diary_msg_count(d, diary, account_id, new_msg_count, source, sync_log_id) ==
    LET old_is_null == diary.msg_count = NoneInt
        old_msg_count == _normalize_msg_count(diary.msg_count)
        new_msg_count_norm == _normalize_msg_count(new_msg_count)
        hit == CasMatches(d, diary.id, account_id, old_msg_count)
    IN  IF diary.id <= 0 THEN [db |-> d, ok |-> FALSE]
        ELSE IF (~old_is_null) /\ new_msg_count_norm = old_msg_count
        THEN [db |-> d, ok |-> FALSE]
        ELSE IF Cardinality(hit) # 1 THEN [db |-> d, ok |-> FALSE]
        ELSE [db |-> [d EXCEPT
                        !.diaries = [i \in DOMAIN d.diaries |->
                            IF i \in hit
                            THEN [d.diaries[i] EXCEPT !.msg_count = new_msg_count_norm]
                            ELSE d.diaries[i]],
                        !.events = EventsAfterCas(d.events, account_id, diary.id,
                                       sync_log_id, old_msg_count,
                                       new_msg_count_norm, source)],
              ok |-> TRUE]

---------------------------------------------------------------------------
\* Detail-fetch state tracker

FetchRow(diary, success, is_short, content_len, error, attempts) ==
    [diary_id |-> diary.id, nideriji_diary_id |-> diary.nideriji_diary_id,
     last_detail_success |-> success,
     last_detail_is_short |-> IF success THEN is_short ELSE FALSE,
     last_detail_content_len |-> content_len,
     last_detail_error |-> error, attempts |-> attempts]

\* attempts of the row after this attempt
NextAttempts(state) == (IF state = NoRow THEN 0 ELSE state.attempts) + 1

\* The UPDATE a flush emits for a DiaryDetailFetch object: the columns whose
\* value differs from what the session holds for it
FlushState(stored, obj, new) ==
    [k \in DOMAIN stored |-> IF new[k] # obj[k] THEN new[k] ELSE stored[k]]

\* held is the session's DiaryDetailFetch object of the diary when it has
\* loaded one earlier (the SELECT then returns that object as it is), NoRow
\* when the SELECT is the session's first look at the row
_upsert_detail_fetch_state(d, diary, held, success, is_short, content_len, error) ==
    LET state == IF held # NoRow THEN held ELSE FetchStateOf(d, diary.id)
        row == FetchRow(diary, success, is_short, content_len, error,
                        NextAttempts(state))
    IN  IF state = NoRow
        THEN [d EXCEPT !.fetches = Append(d.fetches, row)]
        ELSE [d EXCEPT !.fetches = [i \in DOMAIN d.fetches |->
                  IF d.fetches[i].diary_id = diary.id
                  THEN FlushState(d.fetches[i], state, row)
                  ELSE d.fetches[i]]]

---------------------------------------------------------------------------
\* Content reconciliation

\* A record of the upstream payload: every key present, None where null
MergeKeys == {"title", "content", "weather", "mood", "is_simple", "msg_count", "ts"}

NoneOf(k) ==
    IF k = "content" THEN NoneStr
    ELSE IF k \in {"title", "weather", "mood"} THEN NoneTitle
    ELSE NoneInt

\* detail wins field by field where it is present and not None
Overlay(base, detail, k) == IF detail[k] # NoneOf(k) THEN detail[k] ELSE base[k]

\* a merge that ignores the detail record
_merge_diary_data_KeepsBase(base, detail) == base

_merge_diary_data(base, detail) ==
    LET WithDate(merged) ==
            IF "createddate" \notin DOMAIN base THEN merged
            ELSE merged @@ [createddate |->
                     IF "createddate" \in DOMAIN detail
                        /\ detail.createddate # NoneStr
                     THEN detail.createddate ELSE base.createddate]
    IN  WithDate([id |-> base.id,
                  title |-> Overlay(base, detail, "title"),
                  content |-> Overlay(base, detail, "content"),
                  weather |-> Overlay(base, detail, "weather"),
                  mood |-> Overlay(base, detail, "mood"),
                  is_simple |-> Overlay(base, detail, "is_simple"),
                  msg_count |-> Overlay(base, detail, "msg_count"),
                  ts |-> Overlay(base, detail, "ts")])

\* "not in the dict" for a payload or detail record
NoRec == [id |-> 0]

IdsOf(recs) == [i \in DOMAIN recs |-> recs[i].id]

SeqToSet(s) == {s[i] : i \in DOMAIN s}

HistoryRow(diary) ==
    [diary_id |-> diary.id, nideriji_diary_id |-> diary.nideriji_diary_id,
     title |-> diary.title, content |-> diary.content,
     weather |-> diary.weather, mood |-> diary.mood, ts |-> diary.ts]

\* The UPDATE a flush emits for a Diary object: the columns whose value
\* differs from what the session holds for it, by primary key
FlushDiary(d, obj, new) ==
    [d EXCEPT !.diaries = [i \in DOMAIN d.diaries |->
        IF d.diaries[i].id # obj.id THEN d.diaries[i]
        ELSE [d.diaries[i] EXCEPT
                !.title = IF new.title # obj.title THEN new.title ELSE @,
                !.content = IF new.content # obj.content THEN new.content ELSE @,
                !.weather = IF new.weather # obj.weather THEN new.weather ELSE @,
                !.mood = IF new.mood # obj.mood THEN new.mood ELSE @,
                !.is_simple = IF new.is_simple # obj.is_simple THEN new.is_simple ELSE @,
                !.ts = IF new.ts # obj.ts THEN new.ts ELSE @]]]

\* _save_diaries, part 1 (before the detail request): what the session loads
existing_by_id(d, diaries) ==
    [nid \in SeqToSet(IdsOf(diaries)) |-> DiaryByNid(d, nid)]

detail_state_by_id(d, existing) ==
    [nid \in DOMAIN existing |->
        IF existing[nid].id = 0 THEN NoRow ELSE FetchStateOf(d, existing[nid].id)]

\* the permanently-short marker
\* a tracker that never remembers a short result
IsPermanentlyShort_Forgets(state) == FALSE

IsPermanentlyShort(state) ==
    state # NoRow /\ state.last_detail_success /\ state.last_detail_is_short

HasFullContent(existing) ==
    existing.id # 0 /\ _content_len(existing.content) >= _DETAIL_CONTENT_MIN_LEN

NeedsDetail(rec, existing, state) ==
    /\ _needs_detail_fetch(rec.content, rec.is_simple)
    /\ ~HasFullContent(existing)
    /\ ~(existing.id # 0 /\ IsPermanentlyShort(state))

need_detail_ids(diaries, existing, states) ==
    LET Test(rec) == NeedsDetail(rec, existing[rec.id], states[rec.id])
    IN  IdsOf(SelectSeq(diaries, Test))

\* reconciliation without the guard: every candidate is accepted
GuardRejects_Absent(new_content, db_content) == FALSE

\* the non-regression guard
\* a guard that only keeps out an empty candidate
GuardRejects_OnlyEmpty(new_content, db_content) ==
    /\ _content_len(new_content) = 0
    /\ _content_len(db_content) >= _DETAIL_CONTENT_MIN_LEN

GuardRejects(new_content, db_content) ==
    /\ _content_len(new_content) < _DETAIL_CONTENT_MIN_LEN
    /\ _content_len(db_content) >= _DETAIL_CONTENT_MIN_LEN

\* the decimal digits and their values
Digits == {"0", "1", "2", "3", "4", "5", "6", "7", "8", "9"}

DigitValue(c) ==
    CASE c = "0" -> 0 [] c = "1" -> 1 [] c = "2" -> 2 [] c = "3" -> 3
      [] c = "4" -> 4 [] c = "5" -> 5 [] c = "6" -> 6 [] c = "7" -> 7
      [] c = "8" -> 8 [] c = "9" -> 9

\* A placeholder [<pic>N] in a text, "pic" standing for the character of
\* the pattern \[<pic>(\d+)\]; the digits are one run of a repeated digit
ImageRef(digit, n) ==
    <<[c |-> "[", n |-> 1], [c |-> "pic", n |-> 1], [c |-> digit, n |-> n],
      [c |-> "]", n |-> 1]>>

\* int() of a digit written n times after the digits of value v
RECURSIVE Repeated(_, _, _)
Repeated(v, digit, n) ==
    IF n = 0 THEN v ELSE Repeated(10 * v + DigitValue(digit), digit, n - 1)

\* where a placeholder starts in the runs of a text
ImageAt(content, i) ==
    /\ i + 3 <= Len(content)
    /\ content[i].c = "["
    /\ content[i + 1] = [c |-> "pic", n |-> 1]
    /\ content[i + 2].c \in Digits
    /\ content[i + 3].c = "]"

\* ImageCacheService.extract_image_ids: the positive ids of the
\* placeholders in order of appearance, each once
RECURSIVE ImageIdsFrom(_, _, _)
ImageIdsFrom(content, i, ids) ==
    IF i > Len(content) THEN ids
    ELSE IF ~ImageAt(content, i) THEN ImageIdsFrom(content, i + 1, ids)
    ELSE LET image_id == Repeated(0, content[i + 2].c, content[i + 2].n)
         IN  ImageIdsFrom(content, i + 1,
                 IF image_id <= 0 \/ image_id \in SeqToSet(ids) THEN ids
                 ELSE Append(ids, image_id))

extract_image_ids(content) ==
    IF content = NoneStr THEN <<>> ELSE ImageIdsFrom(content, 1, <<>>)

\* _save_diaries, the branch for a diary the session already holds
UpdateExisting(d, diary, diary_data, account_id, sync_log_id) ==
    LET new_content == OrEmpty(diary_data.content)
        new_title == diary_data.title
        new_msg_count == _normalize_msg_count(diary_data.msg_count)
        db_content_text == OrEmpty(diary.content)
        db_title_text == OrEmptyTitle(diary.title)
        \* synchronize_session="fetch": a matched object takes the new value
        Seen(ok) == IF ok THEN [diary EXCEPT !.msg_count = new_msg_count]
                    ELSE diary
        Updated(seen) ==
            [seen EXCEPT !.title = new_title, !.content = new_content,
                         !.weather = diary_data.weather,
                         !.mood = diary_data.mood, !.ts = diary_data.ts]
        \* the branch after the CAS call, cas being what the call did
        AfterCas(cas) ==
            IF GuardRejects(new_content, db_content_text)
            THEN [db |-> cas.db, obj |-> Seen(cas.ok), skip |-> TRUE,
                  touched |-> FALSE]
            ELSE IF db_content_text # new_content \/ db_title_text # new_title
            THEN [db |-> FlushDiary([cas.db EXCEPT
                                       !.history = Append(@, HistoryRow(diary))],
                                    diary, Updated(Seen(cas.ok))),
                  obj |-> Updated(Seen(cas.ok)), skip |-> FALSE,
                  touched |-> extract_image_ids(new_content) # <<>>]
            ELSE [db |-> cas.db, obj |-> Seen(cas.ok), skip |-> FALSE,
                  touched |-> FALSE]
    IN  AfterCas(_cas_update_diary_msg_count(d, diary, account_id,
                                             new_msg_count, "sync", sync_log_id))

\* Date strings are sequences of characters.
\* int() of the digits of s from position a to position b
RECURSIVE Number(_, _, _)
Number(s, a, b) ==
    IF b < a THEN 0 ELSE 10 * Number(s, a, b - 1) + DigitValue(s[b])

IsLeap(year) == year % 4 = 0 /\ (year % 100 # 0 \/ year % 400 = 0)

DaysIn(year, month) ==
    IF month = 2 THEN (IF IsLeap(year) THEN 29 ELSE 28)
    ELSE IF month \in {4, 6, 9, 11} THEN 30 ELSE 31

NoDate == [ok |-> FALSE, year |-> 0, month |-> 0, day |-> 0]

\* datetime.strptime(s, "%Y-%m-%d").date().  The format compiles to the
\* pattern (\d\d\d\d)-(1[0-2]|0[1-9]|[1-9])-(3[01]|[12]\d|0[1-9]|[1-9]| [1-9]),
\* matched at the start of s; text left after the match ("unconverted data
\* remains") and a day the month does not have raise ValueError, as does
\* the year 0.  ok is FALSE where ValueError is raised.
strptime_Ymd(s) ==
    LET n == Len(s)
        At(i, chars) == i <= n /\ s[i] \in chars
        \* the length the month alternatives match from position 6
        month_len ==
            IF \/ At(6, {"1"}) /\ At(7, {"0", "1", "2"})
               \/ At(6, {"0"}) /\ At(7, Digits \ {"0"})
            THEN 2
            ELSE IF At(6, Digits \ {"0"}) THEN 1 ELSE 0
        q == 7 + month_len
        \* the length the day alternatives match from position q, and
        \* where the digits of the day start
        day_len ==
            IF \/ At(q, {"3"}) /\ At(q + 1, {"0", "1"})
               \/ At(q, {"1", "2"}) /\ At(q + 1, Digits)
               \/ At(q, {"0"}) /\ At(q + 1, Digits \ {"0"})
            THEN 2
            ELSE IF At(q, Digits \ {"0"}) THEN 1
            ELSE IF At(q, {" "}) /\ At(q + 1, Digits \ {"0"}) THEN 2
            ELSE 0
        day_from == IF At(q, {" "}) THEN q + 1 ELSE q
        Parsed(year, month, day) ==
            IF year >= 1 /\ day <= DaysIn(year, month)
            THEN [ok |-> TRUE, year |-> year, month |-> month, day |-> day]
            ELSE NoDate
    IN  IF /\ \A i \in 1..4 : At(i, Digits)
           /\ At(5, {"-"})
           /\ month_len > 0
           /\ At(6 + month_len, {"-"})
           /\ day_len > 0
           /\ n = q + day_len - 1
        THEN Parsed(Number(s, 1, 4), Number(s, 6, 5 + month_len),
                    Number(s, day_from, q + day_len - 1))
        ELSE NoDate

\* a date every format accepts
WellFormedDate == <<"2", "0", "2", "4", "-", "0", "1", "-", "0", "5">>

\* diary_data["createddate"]; the records of the runs that do not vary the
\* date carry a well-formed one, which is left out of them
CreatedDate(diary_data) ==
    IF "createddate" \in DOMAIN diary_data THEN diary_data.createddate
    ELSE WellFormedDate

\* _save_diaries, the branch for a diary id first seen
InsertNew(d, diary_data, user, account_id) ==
    LET row == DiaryRow(Len(d.diaries) + 1, diary_data.id, user.id,
                        account_id, diary_data)
    IN  [db |-> [d EXCEPT !.diaries = Append(@, row)], obj |-> row,
         skip |-> FALSE, touched |-> extract_image_ids(row.content) # <<>>]

\* record the outcome of the detail request made for this diary
RecordDetail(d, diary, held, diary_data, returned) ==
    IF returned
    THEN _upsert_detail_fetch_state(d, diary, held, TRUE,
             _content_len(diary_data.content) < _DETAIL_CONTENT_MIN_LEN,
             _content_len(diary_data.content), NoneTitle)
    ELSE _upsert_detail_fetch_state(d, diary, held, FALSE, FALSE, NoneInt,
             "not returned")

\* _save_diaries, part 2 (after the detail request): the loop over the batch,
\* from record i on; existing is the session's dict of Diary objects and
\* states the tracker rows it loaded with them
RECURSIVE SaveLoop(_, _, _, _, _, _, _, _, _, _)
SaveLoop(d, existing, states, diaries, i, user, account_id, requested, details_by_id, sync_log_id) ==
    IF i > Len(diaries) THEN [db |-> d, exc |-> "none", touched |-> <<>>]
    ELSE
      LET nid == diaries[i].id
          returned == nid \in DOMAIN details_by_id /\ details_by_id[nid] # NoRec
          diary_data == IF returned
                        THEN _merge_diary_data(diaries[i], details_by_id[nid])
                        ELSE diaries[i]
          diary == existing[nid]
          \* r: what the insert or update branch did
          Recorded(r) == IF ~r.skip /\ nid \in requested
                         THEN RecordDetail(r.db, r.obj, states[nid],
                                           diary_data, returned)
                         ELSE r.db
          \* touched_for_prefetch, the diary of this record first
          Touched(r, rest) ==
              IF r.touched THEN [rest EXCEPT !.touched = <<r.obj.id>> \o @]
              ELSE rest
          Rest(r) == Touched(r,
                         SaveLoop(Recorded(r), [existing EXCEPT ![nid] = r.obj],
                                  states, diaries, i + 1, user, account_id,
                                  requested, details_by_id, sync_log_id))
          \* the Diary constructor's arguments are evaluated first: a date
          \* strptime refuses raises ValueError out of the loop
      IN  IF diary.id = 0 /\ ~strptime_Ymd(CreatedDate(diary_data)).ok
          THEN [db |-> d, exc |-> "value", touched |-> <<>>]
          ELSE Rest(IF diary.id = 0
                    THEN InsertNew(d, diary_data, user, account_id)
                    ELSE UpdateExisting(d, diary, diary_data, account_id,
                                        sync_log_id))

---------------------------------------------------------------------------
\* Upstream client and token lifecycle.  A call's outcome is its HTTP status
\* ("200", "401", ...) or "network" for an httpx.RequestError.

AuthToken(jwt) == <<"token", jwt>>

\* login_nideriji: resp is the login endpoint's answer
login_nideriji(resp) ==
    IF resp.status = "network" THEN [exc |-> "network", token |-> <<>>]
    ELSE IF resp.status # "200" THEN [exc |-> "http", token |-> <<>>]
    ELSE IF resp.error # 0 THEN [exc |-> "value", token |-> <<>>]
    ELSE IF resp.token = NoneStr \/ Strip(resp.token) = EmptyStr
    THEN [exc |-> "value", token |-> <<>>]
    ELSE [exc |-> "none", token |-> AuthToken(Strip(resp.token))]

\* what a failed call raises: httpx.RequestError, httpx.HTTPStatusError, or
\* a ValueError for an answer that is no JSON object
ExcOf(outcome) ==
    IF outcome = "network" THEN "network"
    ELSE IF outcome = "badjson" THEN "value"
    ELSE "http"

IsHttpStatusError(outcome) == outcome \notin {"200", "network", "badjson"}

\* isinstance(value, str) and value.strip()
HasText(value) == value # NoneStr /\ Strip(value) # EmptyStr

\* a wrapper that logs in again after every failure of the first call
fetch_nideriji_data_for_account_Eager(account, net) ==
    IF net.first = "200"
    THEN [exc |-> "none", account |-> account, logins |-> 0,
          calls |-> <<account.auth_token>>]
    ELSE [exc |-> IF net.second = "200" THEN "none" ELSE ExcOf(net.second),
          account |-> [account EXCEPT
                          !.auth_token = login_nideriji(net.login).token],
          logins |-> 1,
          calls |-> <<account.auth_token, login_nideriji(net.login).token>>]

\* fetch_nideriji_data_for_account: net.first / net.second are the outcomes
\* of the bulk-sync call, net.login the login endpoint's answer.  calls lists
\* the tokens the call was made with, logins counts login_nideriji calls.
fetch_nideriji_data_for_account(account, net) ==
    LET email == account.email
        login_password == account.login_password
        can_relogin ==
            /\ net.first \in {"401", "403"}
            /\ HasText(email)
            /\ HasText(login_password)
        login == login_nideriji(net.login)
    IN  IF net.first = "200"
        THEN [exc |-> "none", account |-> account, logins |-> 0,
              calls |-> <<account.auth_token>>]
        ELSE IF ~IsHttpStatusError(net.first) \/ ~can_relogin
        THEN [exc |-> ExcOf(net.first), account |-> account, logins |-> 0,
              calls |-> <<account.auth_token>>]
        ELSE IF email \in {NoneStr, EmptyStr}
                \/ login_password \in {NoneStr, EmptyStr}
        THEN [exc |-> ExcOf(net.first), account |-> account, logins |-> 0,
              calls |-> <<account.auth_token>>]
        ELSE IF login.exc # "none"
        THEN [exc |-> login.exc, account |-> account, logins |-> 1,
              calls |-> <<account.auth_token>>]
        ELSE [exc |-> IF net.second = "200" THEN "none" ELSE ExcOf(net.second),
              account |-> [account EXCEPT !.auth_token = login.token],
              logins |-> 1,
              calls |-> <<account.auth_token, login.token>>]

\* a wrapper that answers a failure of the retried call like one of the
\* first call: it logs in and calls again
write_diary_for_account_Relogin(account, net) ==
    IF net.first \in {"401", "403"} /\ net.second # "200"
    THEN [exc |-> ExcOf(net.second),
          account |-> [account EXCEPT
                          !.auth_token = login_nideriji(net.login).token],
          logins |-> 2,
          calls |-> <<account.auth_token, login_nideriji(net.login).token,
                      login_nideriji(net.login).token>>]
    ELSE [exc |-> "none", account |-> account, logins |-> 0,
          calls |-> <<account.auth_token>>]

\* write_diary_for_account (publisher.py), the same wrapper around write_diary
write_diary_for_account(account, net) ==
    LET can_relogin ==
            /\ net.first \in {"401", "403"}
            /\ HasText(account.email)
            /\ account.login_password # NoneStr
            /\ Strip(OrEmpty(account.login_password)) # EmptyStr
        login == login_nideriji(net.login)
        renewed == [account EXCEPT !.auth_token = login.token]
    IN  IF net.first = "200"
        THEN [exc |-> "none", account |-> account, logins |-> 0,
              calls |-> <<account.auth_token>>]
        ELSE IF ~IsHttpStatusError(net.first) \/ ~can_relogin
        THEN [exc |-> ExcOf(net.first), account |-> account, logins |-> 0,
              calls |-> <<account.auth_token>>]
        ELSE IF login.exc # "none"
        THEN [exc |-> login.exc, account |-> account, logins |-> 1,
              calls |-> <<account.auth_token>>]
        ELSE [exc |-> IF net.second = "200" THEN "none" ELSE ExcOf(net.second),
              account |-> renewed, logins |-> 1,
              calls |-> <<account.auth_token, renewed.auth_token>>]

\* account.auth_token was set and flushed: the UPDATE writes that column of
\* the account's row
PutAccount(d, account) ==
    [d EXCEPT !.accounts = [i \in DOMAIN d.accounts |->
        IF d.accounts[i].id = account.id
        THEN [d.accounts[i] EXCEPT !.auth_token = account.auth_token]
        ELSE d.accounts[i]]]

\* the row of the accounts table; the table has a login_password column
\* (database.py, _ensure_schema)
AccountRow(d, account_id) ==
    LET P(r) == r.id = account_id IN OneOrNone(SelectSeq(d.accounts, P))

\* the Account object a session loads from a row.  The Account class maps
\* id, nideriji_userid, auth_token, email and is_active; it maps no
\* login_password, so getattr(account, "login_password", None) of a loaded
\* object is None whatever the row's column holds.
MappedAccount(row) == [row EXCEPT !.login_password = NoneStr]

\* select(Account).where(Account.id == account_id), scalar_one_or_none
AccountById(d, account_id) ==
    IF AccountRow(d, account_id) = NoRow THEN NoRow
    ELSE MappedAccount(AccountRow(d, account_id))

---------------------------------------------------------------------------
\* Users and pairing

\* _to_utc_datetime: epoch seconds to a naive UTC datetime (days since the
\* epoch, seconds of the day)
NoneTime == [day |-> NoneInt, sec |-> NoneInt]

_to_utc_datetime(value) ==
    [day |-> value \div 86400, sec |-> value % 86400]

\* `x` used as a condition, for an integer or None
Truthy(value) == value # NoneInt /\ value # 0

_save_user_info(d, user_config) ==
    LET user == UserByNid(d, user_config.userid)
        fresh == [id |-> Len(d.users) + 1,
                  nideriji_userid |-> user_config.userid,
                  name |-> user_config.name]
    IN  IF user # NoRow
        THEN [db |-> [d EXCEPT !.users = [i \in DOMAIN d.users |->
                        IF d.users[i].id = user.id
                        THEN [d.users[i] EXCEPT !.name = user_config.name]
                        ELSE d.users[i]]],
              user |-> [user EXCEPT !.name = user_config.name]]
        ELSE [db |-> [d EXCEPT !.users = Append(@, fresh)], user |-> fresh]

PairOf(d, account_id, paired_user_id) ==
    LET P(r) == r.account_id = account_id /\ r.paired_user_id = paired_user_id
    IN  OneOrNone(SelectSeq(d.pairs, P))

NewPair(account_id, main_user, paired_user, paired_config) ==
    [account_id |-> account_id, user_id |-> main_user.id,
     paired_user_id |-> paired_user.id,
     paired_time |-> IF Truthy(paired_config.paired_time)
                     THEN _to_utc_datetime(paired_config.paired_time)
                     ELSE NoneTime,
     is_active |-> TRUE]

\* pairing that adds a row at every sync
AddsPair_Always(relationship) == TRUE

\* the partner is not saved when the diaries are reconciled
_save_paired_user_info_Skipped(d, paired_config, account_id) == d

\* whether _save_paired_user_info adds a relationship row
AddsPair(relationship) == relationship = NoRow

_save_paired_user_info(d, paired_config, account_id) ==
    LET saved == _save_user_info(d, paired_config)
        paired_user == saved.user
        account == AccountById(saved.db, account_id)
        main_user == IF account = NoRow THEN NoRow
                     ELSE UserByNid(saved.db, account.nideriji_userid)
        relationship == PairOf(saved.db, account_id, paired_user.id)
    IN  IF main_user # NoRow /\ AddsPair(relationship)
        THEN [saved.db EXCEPT !.pairs =
                 Append(@, NewPair(account_id, main_user, paired_user, paired_config))]
        ELSE saved.db

---------------------------------------------------------------------------
\* _save_diaries: details is the detail endpoint's behaviour during this
\* call, [status, recs] with recs[nid] the record it returns for nid or NoRec

DetailsById(need, details) ==
    [nid \in {n \in SeqToSet(need) : n \in DOMAIN details.recs /\ details.recs[n] # NoRec}
        |-> details.recs[nid]]

\* what the session loads before the detail request: the Diary objects of
\* the batch and their tracker rows
LoadedDiaries(d, diaries) ==
    LET existing == existing_by_id(d, diaries)
    IN  [existing |-> existing, states |-> detail_state_by_id(d, existing)]

\* the ids of a list in order, each once
RECURSIVE UniqueFrom(_, _)
UniqueFrom(ids, seen) ==
    IF ids = <<>> THEN seen
    ELSE UniqueFrom(Tail(ids),
                    IF Head(ids) \in SeqToSet(seen) THEN seen
                    ELSE Append(seen, Head(ids)))

Unique(ids) == UniqueFrom(ids, <<>>)

\* _save_diaries with the session's objects given: d is the database its
\* statements run against, loaded what the session read earlier
SaveDiariesWith(d, loaded, diaries, account_id, user_nideriji_id, details, sync_log_id) ==
    LET user == UserByNid(d, user_nideriji_id)
        existing == loaded.existing
        states == loaded.states
        need == need_detail_ids(diaries, existing, states)
        Saved(r) == [db |-> r.db, exc |-> r.exc,
                     requests |-> IF need = <<>> THEN <<>> ELSE <<need>>,
                     prefetch_ids |-> Unique(r.touched)]
    IN  IF diaries = <<>> \/ user = NoRow
        THEN [db |-> d, exc |-> "none", requests |-> <<>>,
              prefetch_ids |-> <<>>]
        ELSE IF need # <<>> /\ details.status # "200"
        THEN [db |-> d, exc |-> ExcOf(details.status), requests |-> <<need>>,
              prefetch_ids |-> <<>>]
        ELSE Saved(SaveLoop(d, existing, states, diaries, 1, user, account_id,
                            SeqToSet(need), DetailsById(need, details),
                            sync_log_id))

_save_diaries(d, diaries, account_id, user_nideriji_id, details, sync_log_id) ==
    SaveDiariesWith(d, LoadedDiaries(d, diaries), diaries, account_id,
                    user_nideriji_id, details, sync_log_id)

---------------------------------------------------------------------------
\* Account sync orchestrator

\* a running log that is not written before the work starts
_start_sync_log_Unsaved(d, account_id) == d

\* the log reports zero diaries whatever is stored
_get_account_diary_totals_Zero(d, account_id, main_user_id) ==
    [mine |-> 0, paired |-> 0]

_start_sync_log(d, account_id) ==
    [d EXCEPT !.logs = Append(@,
        [id |-> Len(d.logs) + 1, account_id |-> account_id,
         status |-> "running", diaries_count |-> NoneInt,
         paired_diaries_count |-> NoneInt, error_message |-> NoneTitle])]

_finish_sync_log(d, log_id, status, diaries_count, paired_diaries_count, error_message) ==
    [d EXCEPT !.logs = [i \in DOMAIN d.logs |->
        IF d.logs[i].id # log_id THEN d.logs[i]
        ELSE [d.logs[i] EXCEPT !.status = status,
                               !.diaries_count = diaries_count,
                               !.paired_diaries_count = paired_diaries_count,
                               !.error_message = error_message]]]

_get_account_diary_totals(d, account_id, main_user_id) ==
    [mine |-> Cardinality({i \in DOMAIN d.diaries :
                  d.diaries[i].account_id = account_id
                  /\ d.diaries[i].user_id = main_user_id}),
     paired |-> Cardinality({i \in DOMAIN d.diaries :
                  d.diaries[i].account_id = account_id
                  /\ d.diaries[i].user_id # main_user_id})]

\* the rows the session added break a unique column: two diaries with one
\* nideriji_diary_id, two users with one nideriji_userid, two tracker rows of
\* one diary.  The INSERT is refused when the session flushes.
UniqueViolated(d) ==
    \/ \E i, j \in DOMAIN d.diaries :
          i # j /\ d.diaries[i].nideriji_diary_id = d.diaries[j].nideriji_diary_id
    \/ \E i, j \in DOMAIN d.users :
          i # j /\ d.users[i].nideriji_userid = d.users[j].nideriji_userid
    \/ \E i, j \in DOMAIN d.fetches :
          i # j /\ d.fetches[i].diary_id = d.fetches[j].diary_id

\* the steps of sync_account between the running log and the final log;
\* loaded is what _save_diaries read for the account's own diaries (the
\* steps before it write no diary and no tracker row); exc is what the
\* first failing step raised; steps lists the calls in the order the
\* function makes them
SyncBody(d, loaded, account, net, sync_log_id) ==
    LET rdata == net.rdata
        user_config == rdata.user_config
        first_steps ==
            <<"fetch", "save_user">>
            \o (IF user_config.paired_user_config # NoRec
                THEN <<"save_paired_user">> ELSE <<>>)
            \o <<"save_diaries">>
        \* fetched: what the wrapped bulk call did; d1: the database with the
        \* account's token as the wrapper left it
        Store(fetched, d1) ==
            LET base == [logins |-> fetched.logins, calls |-> fetched.calls]
                \* after the second _save_diaries
                Paired(main, main_user, paired) ==
                    base @@ [db |-> paired.db,
                             exc |-> IF paired.exc = "none"
                                        /\ UniqueViolated(paired.db)
                                     THEN "integrity" ELSE paired.exc,
                             requests |-> main.requests \o paired.requests,
                             main_user |-> main_user,
                             prefetch_diary_ids |->
                                 main.prefetch_ids \o paired.prefetch_ids,
                             steps |-> first_steps \o <<"save_diaries_paired">>]
                \* after the first _save_diaries
                Main(main, main_user) ==
                    IF main.exc # "none"
                    THEN base @@ [db |-> main.db, exc |-> main.exc,
                                  requests |-> main.requests,
                                  main_user |-> main_user,
                                  prefetch_diary_ids |-> main.prefetch_ids,
                                  steps |-> first_steps]
                    ELSE IF UniqueViolated(main.db)
                    THEN base @@ [db |-> main.db, exc |-> "integrity",
                                  requests |-> main.requests,
                                  main_user |-> main_user,
                                  prefetch_diary_ids |-> main.prefetch_ids,
                                  steps |-> first_steps]
                    ELSE IF rdata.diaries_paired = <<>>
                    THEN base @@ [db |-> main.db, exc |-> "none",
                                  requests |-> main.requests,
                                  main_user |-> main_user,
                                  prefetch_diary_ids |-> main.prefetch_ids,
                                  steps |-> first_steps]
                    ELSE IF user_config.paired_user_config = NoRec
                    THEN base @@ [db |-> main.db, exc |-> "key",
                                  requests |-> main.requests,
                                  main_user |-> main_user,
                                  prefetch_diary_ids |-> main.prefetch_ids,
                                  steps |-> first_steps]
                    ELSE Paired(main, main_user,
                                _save_diaries(main.db, rdata.diaries_paired,
                                    account.id,
                                    user_config.paired_user_config.userid,
                                    net.details, sync_log_id))
                \* after _save_user_info, d2 being the database it left
                Users(d2) ==
                    Main(SaveDiariesWith(
                             IF user_config.paired_user_config # NoRec
                             THEN _save_paired_user_info(d2,
                                      user_config.paired_user_config, account.id)
                             ELSE d2,
                             loaded, rdata.diaries, account.id,
                             user_config.userid, net.details, sync_log_id),
                         UserByNid(d2, user_config.userid))
            IN  IF fetched.exc # "none"
                THEN base @@ [db |-> d1, exc |-> fetched.exc, requests |-> <<>>,
                              main_user |-> NoRow,
                              prefetch_diary_ids |-> <<>>,
                              steps |-> <<"fetch">>]
                ELSE Users(_save_user_info(d1, user_config).db)
        Fetched(fetched) == Store(fetched, PutAccount(d, fetched.account))
    IN  Fetched(fetch_nideriji_data_for_account(account, net))

\* sync_account after the running log was committed: started is the
\* database its statements run against, sync_log_id the log's id
SyncFinish(started, loaded, account, account_id, net, sync_log_id) ==
    LET Succeeded(body, totals) ==
            [db |-> _finish_sync_log(body.db, sync_log_id, "success",
                                     totals.mine, totals.paired, NoneTitle),
             status |-> "success", exc |-> "none", logins |-> body.logins,
             calls |-> body.calls, requests |-> body.requests,
             prefetch_diary_ids |-> body.prefetch_diary_ids,
             steps |-> body.steps
                       \o (IF body.main_user # NoRow THEN <<"totals">> ELSE <<>>)
                       \o <<"finish_success">>]
        \* a refused flush leaves the session's transaction rolled back:
        \* the commit of the except branch raises in its turn, the log row
        \* committed as running stays, the request's session is rolled back
        Finish(body) ==
            IF body.exc = "integrity"
            THEN [db |-> started, status |-> "running",
                  exc |-> "pending_rollback", logins |-> body.logins,
                  calls |-> body.calls, requests |-> body.requests,
                  prefetch_diary_ids |-> body.prefetch_diary_ids,
                  steps |-> body.steps \o <<"finish_failed">>]
            ELSE IF body.exc # "none"
            THEN [db |-> _finish_sync_log(body.db, sync_log_id, "failed", 0, 0,
                                          body.exc),
                  status |-> "failed", exc |-> body.exc,
                  logins |-> body.logins, calls |-> body.calls,
                  requests |-> body.requests,
                  prefetch_diary_ids |-> body.prefetch_diary_ids,
                  steps |-> body.steps \o <<"finish_failed">>]
            ELSE Succeeded(body,
                     IF body.main_user # NoRow
                     THEN _get_account_diary_totals(body.db, account_id,
                                                    body.main_user.id)
                     ELSE [mine |-> 0, paired |-> 0])
    IN  Finish(SyncBody(started, loaded, account, net, sync_log_id))

\* the settings that the block after the success commit reads first
ImageSettings == {"image_cache_enabled", "image_cache_prefetch_on_sync"}

\* which of them the Settings object has: the Settings class of config.py
\* declares neither; services/image_cache.py and the block itself read them
\* as declared fields.  Both objects are modelled.
SettingsWorlds == {{}, ImageSettings}

\* scheduling that does not look at how the run ended
AfterSuccessCommit_Unchecked(r, sync_log_id, settings) ==
    r @@ [scheduled |-> Unique(r.prefetch_diary_ids)]

\* sync_account from the success commit on: r is the run up to that commit.
\* The block that schedules the image prefetch is still inside the try, so
\* reading a setting the object does not have (AttributeError) enters the
\* except branch, which writes failed and zero counts to the log it has
\* just committed as success, commits and re-raises.  With the settings
\* there and diaries with images touched, _schedule_prefetch_images reads
\* the limit of images (a third setting) and creates a detached task for
\* the ids, each once (scheduled); the run returns without awaiting it.
AfterSuccessCommit(r, sync_log_id, settings) ==
    LET Raised ==
            [r EXCEPT !.db = _finish_sync_log(r.db, sync_log_id, "failed", 0, 0,
                                              "attribute"),
                      !.status = "failed", !.exc = "attribute",
                      !.steps = @ \o <<"finish_failed">>]
            @@ [scheduled |-> <<>>]
    IN  IF r.status # "success" THEN r @@ [scheduled |-> <<>>]
        ELSE IF ~(ImageSettings \subseteq settings) THEN Raised
        ELSE IF Unique(r.prefetch_diary_ids) = <<>>
        THEN r @@ [scheduled |-> <<>>]
        ELSE IF "image_cache_prefetch_max_images_per_sync" \notin settings
        THEN Raised
        ELSE r @@ [scheduled |-> Unique(r.prefetch_diary_ids)]

sync_account(d, account_id, net, settings) ==
    LET account == AccountById(d, account_id)
        started == _start_sync_log(d, account_id)
        Called(r) == [r EXCEPT !.steps = <<"lock", "start_sync_log">> \o @]
    IN  IF account = NoRow
        THEN [db |-> d, status |-> "not_found", exc |-> "value", logins |-> 0,
              calls |-> <<>>, requests |-> <<>>, prefetch_diary_ids |-> <<>>,
              scheduled |-> <<>>, steps |-> <<"lock">>]
        ELSE Called(AfterSuccessCommit(
                 SyncFinish(started, LoadedDiaries(started, net.rdata.diaries),
                            account, account_id, net, Len(started.logs)),
                 Len(started.logs), settings))

---------------------------------------------------------------------------
\* Diary refresh procedure

\* the first record of diaries + diaries_paired whose id is nid, or NoRec
Matched(rdata, nid) ==
    LET all_diaries == rdata.diaries \o rdata.diaries_paired
        hits == {i \in DOMAIN all_diaries : all_diaries[i].id = nid}
    IN  IF hits = {} THEN NoRec
        ELSE all_diaries[CHOOSE i \in hits : \A j \in hits : i <= j]

\* a refresh that asks for detail only when the payload held a preview
should_try_detail_FoundOnly(matched) ==
    matched # NoRec /\ _needs_detail_fetch(matched.content, matched.is_simple)

\* a refresh that always asks for detail
should_try_detail_Always(matched) == TRUE

should_try_detail(matched) ==
    \/ matched # NoRec /\ _needs_detail_fetch(matched.content, matched.is_simple)
    \/ matched = NoRec

InitialRefreshInfo ==
    [sync_found |-> FALSE, used_all_by_ids |-> FALSE,
     all_by_ids_returned |-> "None", detail_content_len |-> NoneInt,
     detail_is_short |-> "None", detail_attempts |-> NoneInt,
     updated |-> FALSE, update_source |-> "None", skipped_reason |-> "None"]

BoolStr(b) == IF b THEN "True" ELSE "False"

UpdateSource(info) ==
    IF info.used_all_by_ids /\ info.all_by_ids_returned = "True" THEN "all_by_ids"
    ELSE IF info.sync_found THEN "sync"
    ELSE "None"

\* refresh_diary from the detail request on: diary is the Diary object the
\* session loaded, matched the payload's record, detail the detail endpoint's
\* record for it (NoRec: not returned)
RefreshDetail(d, diary, matched, detail) ==
    LET info0 == [InitialRefreshInfo EXCEPT !.sync_found = matched # NoRec]
        tried == should_try_detail(matched)
        diary_data == IF tried /\ detail # NoRec
                      THEN IF matched # NoRec
                           THEN _merge_diary_data(matched, detail)
                           ELSE detail
                      ELSE matched
        detail_content_len == _content_len(diary_data.content)
        \* d1: the database after the fetch state was recorded
        info1(d1) ==
            IF ~tried THEN info0
            ELSE IF detail # NoRec
            THEN [info0 EXCEPT !.used_all_by_ids = TRUE,
                     !.all_by_ids_returned = "True",
                     !.detail_content_len = detail_content_len,
                     !.detail_is_short =
                         BoolStr(detail_content_len < _DETAIL_CONTENT_MIN_LEN),
                     !.detail_attempts = FetchStateOf(d1, diary.id).attempts]
            ELSE [info0 EXCEPT !.used_all_by_ids = TRUE,
                     !.all_by_ids_returned = "False",
                     !.detail_attempts = FetchStateOf(d1, diary.id).attempts]
        Recorded(d1) == [db |-> d1, info |-> info1(d1), diary_data |-> diary_data]
    IN  Recorded(IF ~tried THEN d
                 ELSE IF detail # NoRec
                 THEN _upsert_detail_fetch_state(d, diary, NoRow, TRUE,
                          detail_content_len < _DETAIL_CONTENT_MIN_LEN,
                          detail_content_len, NoneTitle)
                 ELSE _upsert_detail_fetch_state(d, diary, NoRow, FALSE, FALSE,
                          NoneInt, "not returned"))

\* refresh_diary from `if diary_data:` on
RefreshApply(d, diary, diary_data, info) ==
    LET new_title == diary_data.title
        new_content == StripBom(OrEmpty(diary_data.content))
        new_msg_count == _normalize_msg_count(diary_data.msg_count)
        changed_non_msg ==
            \/ diary.title # new_title
            \/ OrEmpty(diary.content) # new_content
            \/ OrEmptyTitle(diary.weather) # diary_data.weather
            \/ OrEmptyTitle(diary.mood) # diary_data.mood
            \/ diary.is_simple # diary_data.is_simple
            \/ diary.ts # diary_data.ts
        with_source == [info EXCEPT !.updated = TRUE,
                                    !.update_source = UpdateSource(info)]
        new == [diary EXCEPT !.title = new_title, !.content = new_content,
                             !.weather = diary_data.weather,
                             !.mood = diary_data.mood,
                             !.is_simple = diary_data.is_simple,
                             !.ts = diary_data.ts]
        logged(d1) == IF OrEmpty(diary.content) # new_content
                         \/ OrEmptyTitle(diary.title) # new_title
                      THEN [d1 EXCEPT !.history = Append(@, HistoryRow(diary))]
                      ELSE d1
        \* the branch after the CAS call, cas being what the call did
        AfterCas(cas) ==
            IF GuardRejects(new_content, diary.content)
            THEN [db |-> cas.db,
                  info |-> IF cas.ok
                           THEN [with_source EXCEPT
                                    !.skipped_reason = "short kept out, msg updated"]
                           ELSE [info EXCEPT !.skipped_reason = "short kept out"]]
            ELSE IF ~changed_non_msg
            THEN [db |-> cas.db,
                  info |-> IF cas.ok
                           THEN [with_source EXCEPT !.skipped_reason = "msg only"]
                           ELSE [info EXCEPT !.skipped_reason = "unchanged"]]
            ELSE [db |-> FlushDiary(logged(cas.db), diary, new),
                  info |-> with_source]
    IN  IF diary_data = NoRec
        THEN [db |-> d,
              info |-> [info EXCEPT !.skipped_reason = "not found anywhere"]]
        ELSE AfterCas(_cas_update_diary_msg_count(d, diary, diary.account_id,
                                                  new_msg_count, "refresh",
                                                  NoneInt))

\* net: the upstream's behaviour during the call, as for sync_account, with
\* net.details.recs[nid] the detail endpoint's record for the diary
\* the three rows refresh_diary loads first
LoadedForRefresh(d, diary_id) ==
    LET P(r) == r.id = diary_id
        diary == OneOrNone(SelectSeq(d.diaries, P))
        Q(r) == r.id = diary.user_id
    IN  [diary |-> diary,
         account |-> IF diary = NoRow THEN NoRow
                     ELSE AccountById(d, diary.account_id),
         user |-> IF diary = NoRow THEN NoRow ELSE OneOrNone(SelectSeq(d.users, Q))]

\* refresh_diary with the session's objects given
RefreshWith(d, loaded, net) ==
    LET diary == loaded.diary
        account == loaded.account
        user == loaded.user
        matched == Matched(net.rdata, diary.nideriji_diary_id)
        tried == should_try_detail(matched)
        detail == IF diary.nideriji_diary_id \in DOMAIN net.details.recs
                  THEN net.details.recs[diary.nideriji_diary_id]
                  ELSE NoRec
        Applied(base, applied) ==
            base @@ [db |-> applied.db, exc |-> "none", info |-> applied.info,
                     requests |-> IF tried
                                  THEN << <<diary.nideriji_diary_id>> >>
                                  ELSE <<>>]
        Detailed(base, detailed) ==
            Applied(base, RefreshApply(detailed.db, diary, detailed.diary_data,
                                       detailed.info))
        \* fetched: what the wrapped bulk call did
        Fetched(fetched, base) ==
            IF fetched.exc # "none"
            THEN base @@ [db |-> d, exc |-> fetched.exc,
                          info |-> InitialRefreshInfo, requests |-> <<>>]
            ELSE IF tried /\ net.details.status # "200"
            THEN base @@ [db |-> d, exc |-> ExcOf(net.details.status),
                          info |-> InitialRefreshInfo,
                          requests |-> << <<diary.nideriji_diary_id>> >>]
            ELSE Detailed(base, RefreshDetail(PutAccount(d, fetched.account),
                                              diary, matched, detail))
        Call(fetched) ==
            Fetched(fetched, [logins |-> fetched.logins, calls |-> fetched.calls])
    IN  IF diary = NoRow \/ account = NoRow \/ user = NoRow
        THEN [db |-> d, exc |-> "value", info |-> InitialRefreshInfo,
              logins |-> 0, calls |-> <<>>, requests |-> <<>>]
        ELSE Call(fetch_nideriji_data_for_account(account, net))

refresh_diary(d, diary_id, net) ==
    RefreshWith(d, LoadedForRefresh(d, diary_id), net)

---------------------------------------------------------------------------
\* The world the handlers run in

MainUid == 10

PartnerUid == 20

OldToken == AuthToken(Str("o", 8))

\* the database after create_account: the account and its own user exist
InitDb ==
    [accounts |-> <<[id |-> 1, nideriji_userid |-> MainUid,
                     auth_token |-> OldToken, email |-> Str("e", 5),
                     login_password |-> Str("p", 6), is_active |-> TRUE]>>,
     users |-> <<[id |-> 1, nideriji_userid |-> MainUid, name |-> "me"]>>,
     diaries |-> <<>>, history |-> <<>>, events |-> <<>>, fetches |-> <<>>,
     pairs |-> <<>>, logs |-> <<>>]

Idle == [op |-> "idle"]

NoOut == [op |-> "none"]

\* texts around the completeness threshold: 99 characters inside whitespace,
\* exactly 100, and 150
Short99 == <<[c |-> " ", n |-> 1], [c |-> "a", n |-> 99], [c |-> " ", n |-> 1]>>

Short40 == Str("c", 40)

Long100 == Str("a", 100)

Long150 == Str("b", 150)

PreviewRecs ==
    [id : {1}, title : {"A", "B"}, content : {Short99, Long100, Long150},
     weather : {"sun"}, mood : {"ok"}, is_simple : {0, 1},
     msg_count : {0, MaxMsg}, ts : {1}]

DetailRecs ==
    [id : {1}, title : {NoneTitle}, content : {Short40, Long150},
     weather : {NoneTitle}, mood : {NoneTitle}, is_simple : {NoneInt},
     msg_count : {NoneInt}, ts : {NoneInt}]

OkLogin == [status |-> "200", error |-> 0, token |-> Str("n", 8)]

OwnConfig == [userid |-> MainUid, name |-> "me", paired_user_config |-> NoRec]

\* upstream behaviours of the sequential runs: the bulk call succeeds, the
\* payload holds at most the one diary, the detail endpoint answers
SeqNets ==
    [first : {"200"}, login : {OkLogin}, second : {"200"},
     rdata : [user_config : {OwnConfig},
              diaries : {<<>>} \cup {<<r>> : r \in PreviewRecs},
              diaries_paired : {<<>>}],
     details : [status : {"200"}, recs : [{1} -> DetailRecs \cup {NoRec}]]]

---------------------------------------------------------------------------
\* Sequential runs: one handler call at a time, each in a fresh session

Init ==
    /\ db = InitDb
    /\ req = Idle
    /\ out = NoOut
    /\ ops = 0
    /\ up = 0
    /\ tasks = <<>>

\* a sync of account 1 is triggered; nets is the set of upstream behaviours
CallSync(nets) ==
    /\ req = Idle
    /\ ops < MaxOps
    /\ \E net \in nets :
          req' = [op |-> "sync", account_id |-> 1, net |-> net]
    /\ out' = NoOut
    /\ ops' = ops + 1
    /\ UNCHANGED <<db, up, tasks>>

\* a refresh of diary 1 is requested
CallRefresh(nets) ==
    /\ req = Idle
    /\ ops < MaxOps
    /\ \E net \in nets :
          req' = [op |-> "refresh", diary_id |-> 1, net |-> net]
    /\ out' = NoOut
    /\ ops' = ops + 1
    /\ UNCHANGED <<db, up, tasks>>

RunSync ==
    /\ req.op = "sync"
    /\ LET Done(r) ==
               /\ db' = r.db
               /\ out' = [op |-> "sync", call |-> req, before |-> db,
                          status |-> r.status, exc |-> r.exc,
                          logins |-> r.logins, calls |-> r.calls,
                          requests |-> r.requests, steps |-> r.steps]
       IN  \E settings \in SettingsWorlds :
               Done(sync_account(db, req.account_id, req.net, settings))
    /\ req' = Idle
    /\ UNCHANGED <<ops, up, tasks>>

RunRefresh ==
    /\ req.op = "refresh"
    /\ LET Done(r) ==
               /\ db' = r.db
               /\ out' = [op |-> "refresh", call |-> req, before |-> db,
                          exc |-> r.exc, info |-> r.info,
                          logins |-> r.logins, calls |-> r.calls,
                          requests |-> r.requests]
       IN  Done(refresh_diary(db, req.diary_id, req.net))
    /\ req' = Idle
    /\ UNCHANGED <<ops, up, tasks>>

Next == CallSync(SeqNets) \/ CallRefresh(SeqNets) \/ RunSync \/ RunRefresh

Spec == Init /\ [][Next]_vars

---------------------------------------------------------------------------
\* Observations of a finished call (out), used to state the properties

\* the diary with upstream id 1, before and after the call
Before == DiaryByNid(out.before, 1)

After == DiaryByNid(db, 1)

\* the payload record of a finished sync for diary 1, or NoRec
SyncRecord ==
    IF out.call.net.rdata.diaries = <<>> THEN NoRec
    ELSE out.call.net.rdata.diaries[1]

\* whether some detail request of the finished call carried upstream id nid
Requested(nid) == \E i \in DOMAIN out.requests : nid \in SeqToSet(out.requests[i])

RequestsCarrying(nid) ==
    Cardinality({i \in DOMAIN out.requests : nid \in SeqToSet(out.requests[i])})

DetailOf(nid) == out.call.net.details.recs[nid]

\* the candidate a finished sync reconciled diary 1 with: the payload record,
\* overlaid with the detail record when one was requested and returned
SyncCandidate ==
    IF Requested(1) /\ DetailOf(1) # NoRec
    THEN _merge_diary_data(SyncRecord, DetailOf(1))
    ELSE SyncRecord

\* the same for a finished refresh (NoRec: found nowhere)
RefreshCandidate ==
    LET matched == Matched(out.call.net.rdata, 1)
    IN  IF Requested(1) /\ DetailOf(1) # NoRec
        THEN IF matched # NoRec THEN _merge_diary_data(matched, DetailOf(1))
             ELSE DetailOf(1)
        ELSE matched

Candidate ==
    IF out.op = "sync" THEN SyncCandidate
    ELSE IF out.op = "refresh" THEN RefreshCandidate
    ELSE NoRec

IsLong(content) == _content_len(content) >= _DETAIL_CONTENT_MIN_LEN

\* a call that ran to its end and reconciled a short candidate with a diary
\* stored with full content
ShortOntoLong ==
    /\ out.op \in {"sync", "refresh"}
    /\ out.exc = "none"
    /\ Before # NoRow
    /\ IsLong(Before.content)
    /\ Candidate # NoRec
    /\ ~IsLong(Candidate.content)

C1_WitnessRefresh ==
    /\ ShortOntoLong
    /\ out.op = "refresh"
    /\ Candidate.title # Before.title

\* the fetch-tracker row of diary 1, before and after the call
StateBefore ==
    IF Before = NoRow THEN NoRow ELSE FetchStateOf(out.before, Before.id)

StateAfter == IF After = NoRow THEN NoRow ELSE FetchStateOf(db, After.id)

\* a finished sync whose payload carried a preview of diary 1 needing detail
SyncOfShortPreview ==
    /\ out.op = "sync"
    /\ SyncRecord # NoRec
    /\ _needs_detail_fetch(SyncRecord.content, SyncRecord.is_simple)

SuppressedCase ==
    /\ SyncOfShortPreview
    /\ Before # NoRow
    /\ StateBefore # NoRow
    /\ StateBefore.last_detail_success
    /\ StateBefore.last_detail_is_short

\* C7: when the tracker row of an existing diary says the last detail fetch
\* succeeded and was short, a sync whose payload holds a short preview of
\* that diary sends no detail request carrying the diary's id.
C7_DetailSuppressed == SuppressedCase => ~Requested(1)

C7_Witness ==
    /\ SuppressedCase
    /\ ~IsLong(SyncRecord.content)
    /\ out.status = "success"
    /\ out.requests = <<>>

FirstIngestionWithDetail ==
    /\ SyncOfShortPreview
    /\ out.status = "success"
    /\ Before = NoRow

DetailIsLong == DetailOf(1) # NoRec /\ IsLong(DetailOf(1).content)

---------------------------------------------------------------------------
\* Pairing runs: syncs whose payload may carry the partner, with a
\* paired_time that differs from sync to sync

PairConfigs ==
    [userid : {PartnerUid}, name : {"pa", "pb"},
     paired_time : {NoneInt, 0, 86405, 180000}]

PairedRec ==
    [id |-> 1, title |-> "P", content |-> Long100, weather |-> "sun",
     mood |-> "ok", is_simple |-> 0, msg_count |-> 0, ts |-> 1]

PairNets ==
    [first : {"200"}, login : {OkLogin}, second : {"200"},
     rdata : [user_config : [userid : {MainUid}, name : {"me"},
                             paired_user_config : PairConfigs \cup {NoRec}],
              diaries : {<<>>},
              diaries_paired : {<<>>, <<PairedRec>>}],
     details : [status : {"200"}, recs : [{1} -> {NoRec}]]]

NextPair == CallSync(PairNets) \/ RunSync

SpecPair == Init /\ [][NextPair]_vars

\* the payload's partner of a finished sync, or NoRec
PartnerConfig == out.call.net.rdata.user_config.paired_user_config

\* the relationship rows of account 1 and the partner's local user
PairRows(d) ==
    LET partner == UserByNid(d, PartnerUid)
        P(r) == r.account_id = 1 /\ r.paired_user_id = partner.id
    IN  IF partner = NoRow THEN <<>> ELSE SelectSeq(d.pairs, P)

PairingCase == out.op = "sync" /\ out.status = "success" /\ PartnerConfig # NoRec

---------------------------------------------------------------------------
\* Token runs: the bulk call, the write call and the login endpoint fail in
\* every way, for accounts with and without usable credentials

Credentials ==
    [email : {Str("e", 5), Str(" ", 2), NoneStr},
     login_password : {Str("p", 6), EmptyStr}]

PaddedLogin ==
    [status |-> "200", error |-> 0,
     token |-> <<[c |-> " ", n |-> 1], [c |-> "n", n |-> 8]>>]

FailedLogins ==
    {[status |-> "200", error |-> 1, token |-> NoneStr],
     [status |-> "401", error |-> 0, token |-> NoneStr],
     [status |-> "200", error |-> 0, token |-> Str(" ", 3)]}

TokenNets ==
    {net \in [first : {"200", "401", "403", "500", "network"},
              login : {PaddedLogin} \cup FailedLogins,
              second : {"200", "401", "network"},
              rdata : [user_config : {OwnConfig}, diaries : {<<>>},
                       diaries_paired : {<<>>}],
              details : [status : {"200"}, recs : [{1} -> {NoRec}]]] :
        /\ net.first \notin {"401", "403"} =>
              net.login = PaddedLogin /\ net.second = "200"
        /\ net.login # PaddedLogin => net.second = "200"}

InitToken ==
    /\ \E c \in Credentials :
          db = [InitDb EXCEPT !.accounts[1].email = c.email,
                              !.accounts[1].login_password = c.login_password]
    /\ req = Idle
    /\ out = NoOut
    /\ ops = 0
    /\ up = 0
    /\ tasks = <<>>

\* a publish of one diary text through account 1 is requested
CallWrite(nets) ==
    /\ req = Idle
    /\ ops < MaxOps
    /\ \E net \in nets :
          req' = [op |-> "write", account_id |-> 1, net |-> net]
    /\ out' = NoOut
    /\ ops' = ops + 1
    /\ UNCHANGED <<db, up, tasks>>

\* the publish handler's call of write_diary_for_account and its commit
RunWrite ==
    /\ req.op = "write"
    /\ LET Done(r) ==
               /\ db' = PutAccount(db, r.account)
               /\ out' = [op |-> "write", call |-> req, before |-> db,
                          status |-> IF r.exc = "none" THEN "success" ELSE "failed",
                          exc |-> r.exc, logins |-> r.logins, calls |-> r.calls,
                          requests |-> <<>>]
       IN  Done(write_diary_for_account(AccountById(db, req.account_id), req.net))
    /\ req' = Idle
    /\ UNCHANGED <<ops, up, tasks>>

NextToken == CallSync(TokenNets) \/ CallWrite(TokenNets) \/ RunSync \/ RunWrite

SpecToken == InitToken /\ [][NextToken]_vars

AccountBefore == AccountRow(out.before, 1)

AccountAfter == AccountRow(db, 1)

FirstOutcome == out.call.net.first

LoginOutcome == login_nideriji(out.call.net.login)

\* a finished sync whose first bulk call was answered 401 or 403
AuthFailedSync == out.op = "sync" /\ FirstOutcome \in {"401", "403"}

\* what "non-empty" says of a stored credential
NonEmpty(value) == value # NoneStr /\ value # EmptyStr

\* C8: for an account whose row holds a non-empty email and a non-empty
\* stored password, when the first bulk call of sync_account is answered
\* 401 or 403 (and the login endpoint and the retried call would succeed),
\* the run makes exactly one login and exactly one retried bulk call with
\* the new token, the account's auth_token is the new token afterwards, and
\* the sync ends with status success.
C8_TokenAutoRefresh ==
    (/\ AuthFailedSync
     /\ NonEmpty(AccountBefore.email)
     /\ NonEmpty(AccountBefore.login_password)
     /\ LoginOutcome.exc = "none"
     /\ out.call.net.second = "200") =>
        /\ out.logins = 1
        /\ Len(out.calls) = 2
        /\ out.calls[2] = LoginOutcome.token
        /\ AccountAfter.auth_token = LoginOutcome.token
        /\ out.status = "success"

\* a first call of a wrapper that failed in a way the wrapper must hand on:
\* 401/403 with the email or the password missing or empty, another HTTP
\* status, or a network error
MustPropagate ==
    /\ out.op \in {"sync", "write"}
    /\ FirstOutcome # "200"
    /\ \/ FirstOutcome \notin {"401", "403"}
       \/ ~NonEmpty(AccountBefore.email)
       \/ ~NonEmpty(AccountBefore.login_password)

\* C9: in both token wrappers, a first call failing with 401/403 for an
\* account without a non-empty email or password, or failing with another
\* HTTP status or a network error, propagates at once: the operation was
\* invoked once, login never, and the account's auth_token is unchanged.
C9_PropagatesAtOnce ==
    MustPropagate =>
        /\ Len(out.calls) = 1
        /\ out.logins = 0
        /\ out.exc = ExcOf(FirstOutcome)
        /\ AccountAfter.auth_token = AccountBefore.auth_token

C9_Witness ==
    /\ MustPropagate
    /\ out.op = "sync"
    /\ FirstOutcome = "401"
    /\ AccountBefore.email = NoneStr
    /\ out.status = "failed"
    /\ out.logins = 0

C9_WitnessWrite ==
    /\ MustPropagate
    /\ out.op = "write"
    /\ FirstOutcome = "403"
    /\ AccountBefore.login_password = EmptyStr
    /\ out.logins = 0

---------------------------------------------------------------------------
\* Ledger runs: two sessions call _cas_update_diary_msg_count on diary 1.
\* A session loads the Diary object, runs the UPDATE and the event insert in
\* its transaction, and commits.  The row stays locked from the UPDATE to
\* the commit, so a second UPDATE waits and then sees the committed row.

\* the upstream answers of the sync that inserted diary 1
FirstNet(content, msg_count) ==
    [first |-> "200", login |-> OkLogin, second |-> "200",
     rdata |-> [user_config |-> OwnConfig,
                diaries |-> <<[id |-> 1, title |-> "A", content |-> content,
                               weather |-> "sun", mood |-> "ok",
                               is_simple |-> 0, msg_count |-> msg_count,
                               ts |-> 1]>>,
                diaries_paired |-> <<>>],
     details |-> [status |-> "200", recs |-> [nid \in {1} |-> NoRec]]]

DbAfterFirstSync(content, msg_count) ==
    sync_account(InitDb, 1, FirstNet(content, msg_count), ImageSettings).db

\* the partner's account, added like the first one
InitDbTwo ==
    [InitDb EXCEPT
        !.accounts = Append(@, [id |-> 2, nideriji_userid |-> PartnerUid,
                                auth_token |-> AuthToken(Str("q", 8)),
                                email |-> Str("f", 5),
                                login_password |-> Str("p", 6),
                                is_active |-> TRUE]),
        !.users = Append(@, [id |-> 2, nideriji_userid |-> PartnerUid,
                             name |-> "pa"])]

\* what the upstream answers the partner's account about the same diary: it
\* is in the paired list, its author being the partner's partner
PartnerNet(content, msg_count) ==
    [FirstNet(content, msg_count) EXCEPT
        !.rdata = [user_config |->
                       [userid |-> PartnerUid, name |-> "pa",
                        paired_user_config |->
                            [userid |-> MainUid, name |-> "me",
                             paired_time |-> NoneInt]],
                   diaries |-> <<>>,
                   diaries_paired |-> FirstNet(content, msg_count).rdata.diaries]]

\* the database when the partner's account was the first to sync the diary:
\* the row carries the partner's account id
DbAfterPartnerSync(content, msg_count) ==
    sync_account(InitDbTwo, 2, PartnerNet(content, msg_count), ImageSettings).db

Callers == {1, 2}

IdleCaller == [pc |-> "idle"]

InitCas ==
    /\ \E m \in 0..MaxCount : db = DbAfterFirstSync(Long100, m)
    /\ tasks = [t \in Callers |-> IdleCaller]
    /\ req = Idle
    /\ out = NoOut
    /\ ops = 0
    /\ up = 0

\* the caller's session loads the Diary object and is given the new count
CasLoad(t) ==
    /\ tasks[t].pc = "idle"
    /\ \E new \in 0..MaxCount :
          tasks' = [tasks EXCEPT ![t] =
                       [pc |-> "loaded", diary |-> DiaryByNid(db, 1),
                        old |-> DiaryByNid(db, 1).msg_count, new |-> new]]
    /\ UNCHANGED <<db, req, out, ops, up>>

\* the call itself, in the caller's transaction
CasRun(t) ==
    /\ tasks[t].pc = "loaded"
    /\ \A u \in Callers : tasks[u].pc # "written"
    /\ LET Done(r) ==
               tasks' = [tasks EXCEPT ![t] =
                            [pc |-> "written", diary |-> tasks[t].diary,
                             old |-> tasks[t].old, new |-> tasks[t].new,
                             ok |-> r.ok, tx |-> r.db, was |-> db]]
       IN  Done(_cas_update_diary_msg_count(db, tasks[t].diary, 1,
                tasks[t].new, "sync", t))
    /\ UNCHANGED <<db, req, out, ops, up>>

CasCommit(t) ==
    /\ tasks[t].pc = "written"
    /\ db' = tasks[t].tx
    /\ tasks' = [tasks EXCEPT ![t] =
                    [pc |-> "done", old |-> tasks[t].old, new |-> tasks[t].new,
                     ok |-> tasks[t].ok]]
    /\ UNCHANGED <<req, out, ops, up>>

NextCas == \E t \in Callers : CasLoad(t) \/ CasRun(t) \/ CasCommit(t)

SpecCas == InitCas /\ [][NextCas]_vars

\* both calls are over; they read the same stored count and carried the same
\* larger count
DuplicateDelivery ==
    /\ \A t \in Callers : tasks[t].pc = "done"
    /\ tasks[1].old = tasks[2].old
    /\ tasks[1].new = tasks[2].new
    /\ tasks[1].new > tasks[1].old

\* C3: of two concurrent calls that read the same stored msg_count and carry
\* the same larger count, exactly one returns true, the stored msg_count
\* ends equal to the new count, and exactly one DiaryMsgCountEvent is
\* inserted, with delta = new - old.
C3_ExactlyOneCas ==
    DuplicateDelivery =>
        /\ tasks[1].ok # tasks[2].ok
        /\ DiaryByNid(db, 1).msg_count = tasks[1].new
        /\ Len(db.events) = 1
        /\ db.events[1].delta = tasks[1].new - tasks[1].old
        /\ db.events[1].old_msg_count = tasks[1].old
        /\ db.events[1].new_msg_count = tasks[1].new

C3_Witness ==
    /\ DuplicateDelivery
    /\ tasks[1].old = 0
    /\ tasks[1].new = MaxCount
    /\ ~tasks[1].ok
    /\ tasks[2].ok
    /\ Len(db.events) = 1

\* a call that ran against a row still holding the count it had loaded, with
\* a smaller count
DecreaseCase(t) ==
    /\ tasks[t].pc = "written"
    /\ DiaryByNid(tasks[t].was, 1).msg_count = tasks[t].old
    /\ tasks[t].new < tasks[t].old

\* C5: a call whose new count is smaller than the stored count it loaded
\* stores the new count, returns true and inserts no DiaryMsgCountEvent.
C5_GrowthOnlyLedger ==
    \A t \in Callers :
        DecreaseCase(t) =>
            /\ tasks[t].ok
            /\ DiaryByNid(tasks[t].tx, 1).msg_count = tasks[t].new
            /\ tasks[t].tx.events = tasks[t].was.events

C5_Witness ==
    /\ DecreaseCase(1)
    /\ tasks[1].old = MaxCount
    /\ tasks[1].new = 1
    /\ tasks[1].ok
    /\ DiaryByNid(tasks[1].tx, 1).msg_count = 1

---------------------------------------------------------------------------
\* Concurrent runs: a sync of account 1 and a refresh of diary 1, each in
\* its own session, interleaved at the points where the handlers await.
\* sync_account commits its running log and fetches the payload, later
\* loads the Diary objects of the batch, and last runs its statements and
\* commits; refresh_diary loads the Diary object, fetches the payload, and
\* last runs its statements and commits.  The statements from a handler's
\* first write of the diary row to its commit are one step: the row is
\* locked in between and other sessions read the committed row.
\* up is the upstream's message count of diary 1, which only grows.

DetailRec(content) ==
    [id |-> 1, title |-> NoneTitle, content |-> content, weather |-> NoneTitle,
     mood |-> NoneTitle, is_simple |-> NoneInt, msg_count |-> NoneInt,
     ts |-> NoneInt]

\* what the upstream may answer while its message count is msg_count
ConcNets(msg_count) ==
    {[FirstNet(content, msg_count) EXCEPT !.details.recs[1] = detail] :
        content \in {Short99, Long150},
        detail \in {NoRec, DetailRec(Short40)}}

IdleTask == [pc |-> "idle"]

InitConc ==
    /\ \E content \in {Short99, Long150} :
          db \in {DbAfterFirstSync(content, 0), DbAfterPartnerSync(content, 0)}
    /\ tasks = [sync |-> IdleTask, refresh |-> IdleTask]
    /\ req = Idle
    /\ out = NoOut
    /\ ops = 0
    /\ up = 0

\* somebody leaves a message on the diary upstream
UpstreamGrows ==
    /\ up < MaxCount
    /\ up' = up + 1
    /\ UNCHANGED <<db, req, out, ops, tasks>>

\* sync_account up to the payload: account loaded, running log committed,
\* bulk call answered
SyncStart ==
    /\ tasks.sync.pc = "idle"
    /\ ops < MaxOps
    /\ db' = _start_sync_log(db, 1)
    /\ \E net \in ConcNets(up) :
          tasks' = [tasks EXCEPT !.sync =
                       [pc |-> "fetched", net |-> net,
                        account |-> AccountById(db, 1),
                        sync_log_id |-> Len(db.logs) + 1]]
    /\ ops' = ops + 1
    /\ UNCHANGED <<req, out, up>>

\* _save_diaries loads the batch's Diary objects and tracker rows
SyncLoad ==
    /\ tasks.sync.pc = "fetched"
    /\ tasks' = [tasks EXCEPT !.sync =
                    [pc |-> "loaded", net |-> tasks.sync.net,
                     account |-> tasks.sync.account,
                     sync_log_id |-> tasks.sync.sync_log_id,
                     loaded |-> LoadedDiaries(db, tasks.sync.net.rdata.diaries)]]
    /\ UNCHANGED <<db, req, out, ops, up>>

\* the rest of sync_account, to its commit
SyncWrite ==
    /\ tasks.sync.pc = "loaded"
    /\ LET Done(r) ==
               /\ db' = r.db
               /\ out' = [op |-> "sync",
                          call |-> [op |-> "sync", account_id |-> 1,
                                    net |-> tasks.sync.net],
                          before |-> db, status |-> r.status, exc |-> r.exc,
                          logins |-> r.logins, calls |-> r.calls,
                          requests |-> r.requests, steps |-> r.steps,
                          read |-> tasks.sync.loaded.existing[1]]
       IN  \E settings \in SettingsWorlds :
               Done(AfterSuccessCommit(
                        SyncFinish(db, tasks.sync.loaded, tasks.sync.account,
                                   1, tasks.sync.net, tasks.sync.sync_log_id),
                        tasks.sync.sync_log_id, settings))
    /\ tasks' = [tasks EXCEPT !.sync = IdleTask]
    /\ UNCHANGED <<req, ops, up>>

\* refresh_diary loads the diary, its account and its user
RefreshLoad ==
    /\ tasks.refresh.pc = "idle"
    /\ ops < MaxOps
    /\ tasks' = [tasks EXCEPT !.refresh =
                    [pc |-> "loaded", loaded |-> LoadedForRefresh(db, 1)]]
    /\ ops' = ops + 1
    /\ UNCHANGED <<db, req, out, up>>

\* the bulk call (and the detail call) of refresh_diary are answered
RefreshFetch ==
    /\ tasks.refresh.pc = "loaded"
    /\ \E net \in ConcNets(up) :
          tasks' = [tasks EXCEPT !.refresh =
                       [pc |-> "fetched", loaded |-> tasks.refresh.loaded,
                        net |-> net]]
    /\ UNCHANGED <<db, req, out, ops, up>>

\* the rest of refresh_diary, to the commit of its session
RefreshWrite ==
    /\ tasks.refresh.pc = "fetched"
    /\ LET Done(r) ==
               /\ db' = r.db
               /\ out' = [op |-> "refresh",
                          call |-> [op |-> "refresh", diary_id |-> 1,
                                    net |-> tasks.refresh.net],
                          before |-> db, exc |-> r.exc, info |-> r.info,
                          logins |-> r.logins, calls |-> r.calls,
                          requests |-> r.requests,
                          read |-> tasks.refresh.loaded.diary]
       IN  Done(RefreshWith(db, tasks.refresh.loaded, tasks.refresh.net))
    /\ tasks' = [tasks EXCEPT !.refresh = IdleTask]
    /\ UNCHANGED <<req, ops, up>>

NextConc ==
    \/ UpstreamGrows
    \/ SyncStart \/ SyncLoad \/ SyncWrite
    \/ RefreshLoad \/ RefreshFetch \/ RefreshWrite

SpecConc == InitConc /\ [][NextConc]_vars

\* C2: under every interleaving of sync_account and refresh_diary on the
\* diary, a commit that finds its committed content at or above the
\* threshold leaves it at or above the threshold, so content once complete
\* is never short again.
C2_NeverShortAgain ==
    (out.op \in {"sync", "refresh"} /\ Before # NoRow /\ IsLong(Before.content))
        => IsLong(After.content)

RECURSIVE DeltaSum(_)
DeltaSum(events) ==
    IF events = <<>> THEN 0 ELSE Head(events).delta + DeltaSum(Tail(events))

\* C4: while the upstream count never decreases, under every interleaving
\* of sync_account and refresh_diary the deltas of the diary's
\* DiaryMsgCountEvent rows add up to its stored msg_count minus the
\* msg_count it was inserted with.
C4_NoDoubleCount ==
    DeltaSum(db.events) =
        DiaryByNid(db, 1).msg_count - DiaryByNid(DbAfterFirstSync(Short99, 0), 1).msg_count

---------------------------------------------------------------------------
\* Refresh of a diary the upstream no longer lists (runs of Spec)

\* a finished refresh of the stored diary 1 whose payload lists it in neither
\* diaries nor diaries_paired and whose detail answer holds no record of it
FoundNowhere ==
    /\ out.op = "refresh"
    /\ Before # NoRow
    /\ Matched(out.call.net.rdata, 1) = NoRec
    /\ DetailOf(1) = NoRec

\* C11: refresh_diary of a stored diary that is in neither list of the bulk
\* payload and for which the detail request returns no record does not
\* raise; title, content and msg_count stay as they were, the trace says
\* sync_found false, used_all_by_ids true, all_by_ids_returned false,
\* updated false with the not-found-anywhere reason, and the tracker row
\* counts one more attempt, a failed one.
C11_FoundNowhere ==
    FoundNowhere =>
        /\ out.exc = "none"
        /\ After.title = Before.title
        /\ After.content = Before.content
        /\ After.msg_count = Before.msg_count
        /\ db.diaries = out.before.diaries
        /\ ~out.info.sync_found
        /\ out.info.used_all_by_ids
        /\ out.info.all_by_ids_returned = "False"
        /\ ~out.info.updated
        /\ out.info.skipped_reason = "not found anywhere"
        /\ StateAfter # NoRow
        /\ ~StateAfter.last_detail_success
        /\ StateAfter.attempts = NextAttempts(StateBefore)
        /\ out.info.detail_attempts = StateAfter.attempts
        /\ out.requests = << <<1>> >>

\* the case happens for a diary that an earlier detail fetch had completed
C11_Witness ==
    /\ FoundNowhere
    /\ out.exc = "none"
    /\ IsLong(Before.content)
    /\ StateBefore # NoRow
    /\ StateBefore.last_detail_success
    /\ StateAfter.attempts = 2

\* a finished refresh whose candidate the content guard kept out
RefreshRejected ==
    /\ out.op = "refresh"
    /\ out.exc = "none"
    /\ Before # NoRow
    /\ RefreshCandidate # NoRec
    /\ GuardRejects(StripBom(OrEmpty(RefreshCandidate.content)), Before.content)

\* the call's CAS wrote the candidate's message count
CountWritten ==
    /\ After.msg_count # Before.msg_count
    /\ After.msg_count = _normalize_msg_count(RefreshCandidate.msg_count)

\* C12: in refresh_diary the message-count CAS runs before the content guard
\* and whatever the guard decides: when the guard keeps the candidate out,
\* the trace says updated exactly when the CAS wrote the count; either way a
\* skipped_reason is set and content and title stay as they were.
C12_CasBeforeGuard ==
    RefreshRejected =>
        /\ out.info.updated <=> CountWritten
        /\ ~out.info.updated => After.msg_count = Before.msg_count
        /\ out.info.skipped_reason # "None"
        /\ After.content = Before.content
        /\ After.title = Before.title
        /\ db.history = out.before.history

\* both outcomes happen: the count written while the content was kept out
C12_Witness ==
    /\ RefreshRejected
    /\ out.info.updated
    /\ CountWritten
    /\ out.info.skipped_reason = "short kept out, msg updated"
    /\ RefreshCandidate.title # Before.title

C12_WitnessUnchanged ==
    /\ RefreshRejected
    /\ ~out.info.updated
    /\ out.info.skipped_reason = "short kept out"

---------------------------------------------------------------------------
\* Concurrent syncs: two accounts that are each other's partner, two
\* triggers per account (scheduler, manual trigger), one event loop.  A
\* trigger's sync_account runs in its own session; its steps are the
\* stretches between the awaits that matter here: the lock, the committed
\* running log, the bulk call, the loads of _save_diaries, and the
\* statements up to the final commit.

MaxRuns == 3

Invocations == [account_id : {1, 2}, trigger : {1, 2}]

\* what the upstream answers an account: the partner's diary 1, a preview
\* that needs the detail request, is in the paired list of account 1 and in
\* the own list of account 2
LockNets(account_id) ==
    [first : {"200", "500"}, login : {OkLogin}, second : {"200"},
     rdata : IF account_id = 1
             THEN [user_config : {[userid |-> MainUid, name |-> "me",
                                   paired_user_config |->
                                       [userid |-> PartnerUid, name |-> "pa",
                                        paired_time |-> 86405]]},
                   diaries : {<<>>},
                   diaries_paired : {<<>>, <<[PairedRec EXCEPT !.content = Short99]>>}]
             ELSE [user_config : {[userid |-> PartnerUid, name |-> "pa",
                                   paired_user_config |-> NoRec]},
                   diaries : {<<>>, <<[PairedRec EXCEPT !.content = Short99]>>},
                   diaries_paired : {<<>>}],
     details : [status : {"200"}, recs : [{1} -> {NoRec}]]]

InitLock ==
    /\ db = InitDbTwo
    /\ tasks = [run |-> [t \in Invocations |-> IdleTask],
                locks |-> [a \in {1, 2} |-> FALSE]]
    /\ req = Idle
    /\ out = NoOut
    /\ ops = 0
    /\ up = 0

\* async with lock: the trigger gets the account's lock when it is free
LockAcquire(t) ==
    /\ tasks.run[t].pc = "idle"
    /\ ops < MaxRuns
    /\ ~tasks.locks[t.account_id]
    /\ tasks' = [tasks EXCEPT !.locks[t.account_id] = TRUE,
                              !.run[t] = [pc |-> "locked"]]
    /\ ops' = ops + 1
    /\ UNCHANGED <<db, req, out, up>>

\* the account is loaded, the running log added and committed
LockStart(t) ==
    /\ tasks.run[t].pc = "locked"
    /\ db' = _start_sync_log(db, t.account_id)
    /\ tasks' = [tasks EXCEPT !.run[t] =
                    [pc |-> "started", account |-> AccountById(db, t.account_id),
                     sync_log_id |-> Len(db.logs) + 1, calls |-> 0]]
    /\ UNCHANGED <<req, out, ops, up>>

\* the bulk call is sent and answered
LockFetch(t) ==
    /\ tasks.run[t].pc = "started"
    /\ \E net \in LockNets(t.account_id) :
          tasks' = [tasks EXCEPT !.run[t] =
                       [pc |-> "fetched", account |-> tasks.run[t].account,
                        sync_log_id |-> tasks.run[t].sync_log_id,
                        calls |-> 1, net |-> net]]
    /\ UNCHANGED <<db, req, out, ops, up>>

\* _save_diaries loads the Diary objects of the account's own batch
LockLoad(t) ==
    /\ tasks.run[t].pc = "fetched"
    /\ tasks' = [tasks EXCEPT !.run[t] =
                    [pc |-> "loaded", account |-> tasks.run[t].account,
                     sync_log_id |-> tasks.run[t].sync_log_id,
                     calls |-> 1, net |-> tasks.run[t].net,
                     loaded |-> LoadedDiaries(db,
                                    tasks.run[t].net.rdata.diaries)]]
    /\ UNCHANGED <<db, req, out, ops, up>>

\* the statements, the final log, the commit.  A run that raised has left
\* the with block, which releases the lock; a run that committed success
\* goes on to the block that schedules the image prefetch.
LockWrite(t) ==
    /\ tasks.run[t].pc = "loaded"
    /\ LET Ended(r, result) ==
               /\ db' = r.db
               /\ out' = result
               /\ tasks' = IF r.status = "success"
                           THEN [tasks EXCEPT !.run[t] =
                                    [pc |-> "committed",
                                     sync_log_id |-> tasks.run[t].sync_log_id,
                                     result |-> result]]
                           ELSE [tasks EXCEPT !.locks[t.account_id] = FALSE,
                                              !.run[t] = IdleTask]
           Done(r) ==
               Ended(r, [op |-> "sync",
                         call |-> [op |-> "sync", account_id |-> t.account_id,
                                   net |-> tasks.run[t].net],
                         before |-> db, status |-> r.status, exc |-> r.exc,
                         logins |-> r.logins, calls |-> r.calls,
                         requests |-> r.requests, steps |-> r.steps,
                         sync_log_id |-> tasks.run[t].sync_log_id])
       IN  Done(SyncFinish(db, tasks.run[t].loaded, tasks.run[t].account,
                           t.account_id, tasks.run[t].net,
                           tasks.run[t].sync_log_id))
    /\ UNCHANGED <<req, ops, up>>

\* after the success commit: the prefetch is scheduled and the run returns,
\* or the block raises and the except branch runs; either way the with
\* block is left and the lock released
LockReturn(t) ==
    /\ tasks.run[t].pc = "committed"
    /\ \E settings \in SettingsWorlds :
          LET Done(r) ==
                  /\ db' = r.db
                  /\ out' = [tasks.run[t].result EXCEPT !.status = r.status,
                                                        !.exc = r.exc,
                                                        !.steps = r.steps]
          IN  Done(AfterSuccessCommit(
                       [db |-> db, status |-> "success", exc |-> "none",
                        prefetch_diary_ids |-> <<>>,
                        steps |-> tasks.run[t].result.steps],
                       tasks.run[t].sync_log_id, settings))
    /\ tasks' = [tasks EXCEPT !.locks[t.account_id] = FALSE,
                              !.run[t] = IdleTask]
    /\ UNCHANGED <<req, ops, up>>

NextLock ==
    \E t \in Invocations :
        \/ LockAcquire(t) \/ LockStart(t) \/ LockFetch(t) \/ LockLoad(t)
        \/ LockWrite(t) \/ LockReturn(t)

SpecLock == InitLock /\ [][NextLock]_vars

\* the invocations for an account that have added their running log and not
\* yet left sync_account
Between(account_id) ==
    {t \in Invocations :
        t.account_id = account_id
        /\ tasks.run[t].pc \in {"started", "fetched", "loaded"}}

RunningLogs(d, account_id) ==
    {i \in DOMAIN d.logs :
        d.logs[i].account_id = account_id /\ d.logs[i].status = "running"}

\* no two invocations for one account are ever between their running log
\* and their end: the lock does what it is there for
LockExcludes == \A a \in {1, 2} : Cardinality(Between(a)) <= 1

\* C13: at any time at most one sync_account invocation per account id is
\* between creating its running SyncLog and finalizing it, whatever the
\* interleaving of the triggered syncs, and so at most one SyncLog row per
\* account has status running.
C13_OneRunningSync ==
    \A a \in {1, 2} :
        /\ Cardinality(Between(a)) <= 1
        /\ Cardinality(RunningLogs(db, a)) <= 1

\* the SyncLog row with this id, or NoRow
LogOf(d, sync_log_id) ==
    LET P(r) == r.id = sync_log_id IN OneOrNone(SelectSeq(d.logs, P))

\* C15: in every sync_account run for an existing account the SyncLog row
\* with status running is committed before the run's first upstream call,
\* so it can be read as running while the call is in flight: from the
\* moment the bulk call is sent (started) to the final statements, the
\* committed database holds the run's log as running, and no call was made
\* before the row was there.
C15_RunningBeforeCall ==
    \A t \in Invocations :
        /\ tasks.run[t].pc \in {"started", "fetched", "loaded"} =>
              /\ LogOf(db, tasks.run[t].sync_log_id) # NoRow
              /\ LogOf(db, tasks.run[t].sync_log_id).account_id = t.account_id
              /\ LogOf(db, tasks.run[t].sync_log_id).status = "running"
        /\ tasks.run[t].pc = "started" => tasks.run[t].calls = 0

\* the bulk call of one account is in flight, its log reads running, while
\* the other account's sync has finished
C15_Witness ==
    \E t \in Invocations :
        /\ tasks.run[t].pc = "started"
        /\ tasks.run[t].calls = 0
        /\ LogOf(db, tasks.run[t].sync_log_id).status = "running"
        /\ out.op = "sync"
        /\ out.call.account_id # t.account_id

\* a sync that ended with an exception after its running log was committed
SyncRaised == out.op = "sync" /\ out.exc # "none"

\* C16: whatever step of sync_account raises after the running log was
\* committed, the run's SyncLog is committed with status failed, both counts
\* 0 and an error message, and the exception raised to the caller is the
\* step's own.
C16_FailureLogged ==
    SyncRaised =>
        /\ LogOf(db, out.sync_log_id).status = "failed"
        /\ LogOf(db, out.sync_log_id).diaries_count = 0
        /\ LogOf(db, out.sync_log_id).paired_diaries_count = 0
        /\ LogOf(db, out.sync_log_id).error_message # NoneTitle
        /\ out.exc # "pending_rollback"

\* the local user of the account's owner
OwnerOf(d, account_id) == UserByNid(d, AccountRow(d, account_id).nideriji_userid)

StoredOwn(d, account_id) ==
    {i \in DOMAIN d.diaries :
        d.diaries[i].account_id = account_id
        /\ d.diaries[i].user_id = OwnerOf(d, account_id).id}

StoredOthers(d, account_id) ==
    {i \in DOMAIN d.diaries :
        d.diaries[i].account_id = account_id
        /\ d.diaries[i].user_id # OwnerOf(d, account_id).id}

SyncSucceeded == out.op = "sync" /\ out.status = "success"

\* C17: the log of a successful sync counts what is stored after the
\* reconciliation: diaries_count is the number of Diary rows of the account
\* authored by the owner's local user, paired_diaries_count the number
\* authored by anybody else; a sync that inserts nothing reports the totals
\* again, not zero.
C17_StoredTotals ==
    SyncSucceeded =>
        /\ LogOf(db, out.sync_log_id).diaries_count
              = Cardinality(StoredOwn(db, out.call.account_id))
        /\ LogOf(db, out.sync_log_id).paired_diaries_count
              = Cardinality(StoredOthers(db, out.call.account_id))

\* a repeated sync of account 1: nothing inserted, one paired diary reported
C17_Witness ==
    /\ SyncSucceeded
    /\ out.call.account_id = 1
    /\ db.diaries = out.before.diaries
    /\ out.call.net.rdata.diaries_paired # <<>>
    /\ LogOf(db, out.sync_log_id).paired_diaries_count = 1
    /\ LogOf(db, out.sync_log_id).diaries_count = 0

\* the same for account 2, whose own diary it is
C17_WitnessOwn ==
    /\ SyncSucceeded
    /\ out.call.account_id = 2
    /\ db.diaries = out.before.diaries
    /\ LogOf(db, out.sync_log_id).diaries_count = 1

---------------------------------------------------------------------------
\* Upstream HTTP requests with retry (services/http_client.py).  Times are
\* in tenths of a second.

MaxAttempts == 3

\* int(value), or default when int() raises; a value is an int n or
\* something int() refuses (type "str")
_to_int(value, default) == IF value.type = "int" THEN value.n ELSE default

\* the waits _compute_backoff_seconds can return: the doubled base, capped,
\* plus a random share of the jitter
_compute_backoff_seconds(attempt, base, max_backoff, jitter_ratio) ==
    IF base <= 0 THEN {0}
    ELSE LET exp == IF attempt - 1 > 0 THEN attempt - 1 ELSE 0
             uncapped == base * (2 ^ exp)
             delay == IF max_backoff > 0 /\ max_backoff < uncapped
                      THEN max_backoff ELSE uncapped
         IN  IF jitter_ratio > 0
             THEN {delay, delay + (delay * jitter_ratio) \div 100}
             ELSE {delay}

\* what one client.request can do: a response with a status, a network
\* error (httpx.RequestError, timeouts are a subclass), any other exception
Answers ==
    [kind : {"response"}, status : {200, 404, 500}]
    \cup [kind : {"RequestError"}, exc : {"ConnectError", "ReadTimeout"}]
    \cup [kind : {"other"}, exc : {"InvalidURL"}]

\* an except clause that also takes a server error for a network error
IsRequestError_OrServerError(answer) ==
    answer.kind = "RequestError"
    \/ (answer.kind = "response" /\ answer.status >= 500)

\* except httpx.RequestError
IsRequestError(answer) == answer.kind = "RequestError"

\* request_with_retry is called
CallRequest ==
    /\ req = Idle
    /\ ops < MaxOps
    /\ \E max_attempts \in [type : {"int"}, n : -1 .. MaxAttempts]
                              \cup {[type |-> "str", n |-> 0]},
          backoff_seconds \in {0, 5} :
          req' = [op |-> "request", max_attempts |-> max_attempts,
                  attempts |-> IF _to_int(max_attempts, 1) > 1
                               THEN _to_int(max_attempts, 1) ELSE 1,
                  base |-> backoff_seconds,
                  attempt |-> 1, pc |-> "request", trace |-> <<>>]
    /\ out' = NoOut
    /\ ops' = ops + 1
    /\ UNCHANGED <<db, up, tasks>>

\* one turn of the for loop up to its await: the request is sent and
\* answered; a response is returned, a network error ends the call when it
\* was the last attempt and leads to the sleep or the next turn otherwise
Attempt ==
    /\ req.op = "request"
    /\ req.pc = "request"
    /\ \E answer \in Answers :
         LET trace == Append(req.trace, answer)
         IN  IF IsRequestError(answer)
             THEN IF req.attempt >= req.attempts
                  THEN /\ out' = [op |-> "request", call |-> req,
                                  result |-> "raised", answer |-> answer,
                                  yournote_attempts |-> req.attempt,
                                  yournote_max_attempts |-> req.attempts,
                                  trace |-> trace]
                       /\ req' = Idle
                  ELSE /\ \E sleep_s \in _compute_backoff_seconds(
                                            req.attempt, req.base, 50, 10) :
                            req' = IF sleep_s > 0
                                   THEN [req EXCEPT !.pc = "sleep",
                                                    !.trace = trace]
                                   ELSE [req EXCEPT !.attempt = @ + 1,
                                                    !.trace = trace]
                       /\ out' = out
             ELSE /\ out' = [op |-> "request", call |-> req,
                             result |-> IF answer.kind = "response"
                                        THEN "returned" ELSE "raised",
                             answer |-> answer,
                             yournote_attempts |-> NoneInt,
                             yournote_max_attempts |-> NoneInt,
                             trace |-> trace]
                  /\ req' = Idle
    /\ UNCHANGED <<db, ops, up, tasks>>

\* asyncio.sleep(sleep_s) is over: the next turn of the loop
Sleep ==
    /\ req.op = "request"
    /\ req.pc = "sleep"
    /\ req' = [req EXCEPT !.pc = "request", !.attempt = @ + 1,
                          !.trace = Append(@, [kind |-> "sleep"])]
    /\ UNCHANGED <<db, out, ops, up, tasks>>

NextRetry == CallRequest \/ Attempt \/ Sleep

SpecRetry == Init /\ [][NextRetry]_vars

\* the requests sent by the finished call, in order
Sent == SelectSeq(out.trace, LAMBDA e : e.kind # "sleep")

RequestDone == out.op = "request"

\* the attempts the caller allowed: max(1, max_attempts)
Allowed ==
    IF out.call.max_attempts.type = "int" /\ out.call.max_attempts.n > 1
    THEN out.call.max_attempts.n ELSE 1

\* C14: request_with_retry makes at most max(1, max_attempts) attempts; an
\* attempt is followed by another one only when it ended in a network
\* error; the first response received is returned whatever its status; when
\* the last allowed attempt ends in a network error, that error is raised,
\* tagged with the attempt count, with no sleep after it.
C14_RetryOnlyNetwork ==
    RequestDone =>
        /\ Len(Sent) <= Allowed
        /\ \A i \in 1 .. Len(Sent) - 1 : Sent[i].kind = "RequestError"
        /\ out.answer = Sent[Len(Sent)]
        /\ out.trace[Len(out.trace)] = out.answer
        /\ out.answer.kind = "response" => out.result = "returned"
        /\ out.answer.kind = "RequestError" =>
              /\ out.result = "raised"
              /\ Len(Sent) = Allowed
              /\ out.yournote_attempts = Allowed

\* a server error answered the second attempt and was returned
C14_Witness ==
    /\ RequestDone
    /\ out.result = "returned"
    /\ out.answer.status = 500
    /\ Len(Sent) = 2
    /\ Len(out.trace) = 3

\* three network errors, two sleeps, the third error raised
C14_WitnessRaised ==
    /\ RequestDone
    /\ out.result = "raised"
    /\ out.answer.kind = "RequestError"
    /\ Len(Sent) = 3
    /\ Len(out.trace) = 5
    /\ out.yournote_attempts = 3

---------------------------------------------------------------------------
\* Account management (api/accounts.py): create_account, update_account_token
\* and delete_account, each one handler call in its own session.

MaxCalls == 2

\* the text "token <jwt>" as a user pastes it
PastedToken(jwt) == <<[c |-> "token", n |-> 1], [c |-> " ", n |-> 1]>> \o jwt

\* _normalize_auth_token: a value with a space in it is used as it is, a bare
\* jwt gets the "token " prefix
_normalize_auth_token(token_or_jwt) ==
    LET value == Strip(OrEmpty(token_or_jwt))
        spaced == \E i \in DOMAIN value : value[i].c = " "
    IN  IF value = EmptyStr THEN [exc |-> "value", token |-> <<>>]
        ELSE IF ~spaced THEN [exc |-> "none", token |-> AuthToken(value)]
        ELSE IF SubSeq(value, 1, 2) = PastedToken(<<>>)
        THEN [exc |-> "none", token |-> AuthToken(SubSeq(value, 3, Len(value)))]
        ELSE [exc |-> "none", token |-> <<"raw", value>>]

\* select(Account).where(Account.nideriji_userid == nideriji_userid)
AccountByNid(d, nideriji_userid) ==
    LET P(r) == r.nideriji_userid = nideriji_userid
    IN  IF SelectSeq(d.accounts, P) = <<>> THEN NoRow
        ELSE MappedAccount(SelectSeq(d.accounts, P)[1])

\* the flush of a loaded Account: its mapped columns are written
WriteAccount(d, id, auth_token, email, is_active) ==
    [d EXCEPT !.accounts = [i \in DOMAIN d.accounts |->
        IF d.accounts[i].id = id
        THEN [d.accounts[i] EXCEPT !.auth_token = auth_token,
                                   !.email = email,
                                   !.is_active = is_active]
        ELSE d.accounts[i]]]

\* a create_account that never looks for the user's existing row
create_account_Insert(d, account, net) ==
    LET user_config == net.rdata.user_config
        row == [id |-> Len(d.accounts) + 1,
                nideriji_userid |-> user_config.userid,
                auth_token |-> _normalize_auth_token(account.auth_token).token,
                email |-> user_config.useremail,
                login_password |-> NoneStr, is_active |-> TRUE]
    IN  IF ~HasText(account.auth_token) \/ net.first # "200"
           \/ user_config.userid = NoneInt
        THEN [db |-> d, status |-> 500, account_id |-> 0]
        ELSE [db |-> _save_user_info([d EXCEPT !.accounts = Append(@, row)],
                                     user_config).db,
              status |-> 200, account_id |-> row.id]

\* create_account: account is the request body, net.login the login
\* endpoint's answer, net.first the outcome of the bulk call made with the
\* token, net.rdata its payload.  The upstream client raises httpx errors,
\* which are no requests.HTTPError: every upstream failure ends in the
\* `except Exception` branch, a 500.  Account(login_password=...) names an
\* attribute the class does not map: the constructor raises TypeError.
create_account(d, account, net) ==
    LET login_email == IF account.email # NoneStr THEN Strip(account.email)
                       ELSE EmptyStr
        by_token == HasText(account.auth_token)
        use_password_login ==
            ~by_token /\ login_email # EmptyStr /\ HasText(account.password)
        auth == IF by_token THEN _normalize_auth_token(account.auth_token)
                ELSE login_nideriji(net.login)
        user_config == net.rdata.user_config
        email == IF OrEmpty(user_config.useremail) = EmptyStr
                    /\ login_email # EmptyStr
                 THEN login_email
                 ELSE user_config.useremail
        existing == AccountByNid(d, user_config.userid)
        Failed(status) == [db |-> d, status |-> status, account_id |-> 0]
    IN  IF ~by_token /\ ~use_password_login THEN Failed(422)
        ELSE IF auth.exc # "none" THEN Failed(500)
        ELSE IF net.first # "200" THEN Failed(500)
        ELSE IF user_config.userid = NoneInt THEN Failed(500)
        ELSE IF existing # NoRow
        THEN [db |-> _save_user_info(
                        WriteAccount(d, existing.id, auth.token, email, TRUE),
                        user_config).db,
              status |-> 200, account_id |-> existing.id]
        ELSE Failed(500)

\* update_account_token: the token's user must be the account's user
update_account_token(d, account_id, body, net) ==
    LET account == AccountById(d, account_id)
        new_token == _normalize_auth_token(body.auth_token)
        user_config == net.rdata.user_config
        Failed(status) == [db |-> d, status |-> status, account_id |-> 0]
    IN  IF account = NoRow THEN Failed(404)
        ELSE IF new_token.exc # "none" THEN Failed(500)
        ELSE IF net.first # "200" THEN Failed(500)
        ELSE IF user_config.userid = NoneInt THEN Failed(500)
        ELSE IF user_config.userid # account.nideriji_userid THEN Failed(400)
        ELSE [db |-> _save_user_info(
                        WriteAccount(d, account.id, new_token.token,
                                     user_config.useremail, TRUE),
                        user_config).db,
              status |-> 200, account_id |-> account.id]

\* delete_account: a soft delete
delete_account(d, account_id) ==
    LET account == AccountById(d, account_id)
    IN  IF account = NoRow
        THEN [db |-> d, status |-> 404, account_id |-> 0]
        ELSE [db |-> WriteAccount(d, account.id, account.auth_token,
                                  account.email, FALSE),
              status |-> 200, account_id |-> account.id]

\* request bodies: no token, a blank one, a jwt inside whitespace, a pasted
\* "token <jwt>"; with and without email and password
AccountBodies ==
    [auth_token : {NoneStr, Str(" ", 2),
                   Str(" ", 1) \o Str("j", 8) \o Str(" ", 1),
                   PastedToken(Str("k", 8))},
     email : {NoneStr, Str("e", 5)},
     password : {NoneStr, Str("p", 6)}]

\* upstream answers: the token belongs to the first user, to the partner, to
\* a user without an account here, or the payload names no user
AccountNets ==
    [login : {OkLogin, [status |-> "401", error |-> 0, token |-> NoneStr]},
     first : {"200", "401"},
     rdata : [user_config : [userid : {MainUid, PartnerUid, 30, NoneInt},
                             name : {"me"},
                             useremail : {NoneStr, Str("g", 5)}]]]

\* the body of update_account_token holds a token only
TokenBodies == {b \in AccountBodies : b.email = NoneStr /\ b.password = NoneStr}

AccountIds == {1, 2, 3}

InitAccounts ==
    /\ db = InitDbTwo
    /\ req = Idle
    /\ out = NoOut
    /\ ops = 0
    /\ up = 0
    /\ tasks = <<>>

CreateAccount ==
    /\ ops < MaxCalls
    /\ \E account \in AccountBodies, net \in AccountNets :
          LET Done(r) ==
                  /\ db' = r.db
                  /\ out' = [op |-> "create_account", before |-> db,
                             account |-> account,
                             userid |-> net.rdata.user_config.userid,
                             status |-> r.status,
                             account_id |-> r.account_id]
          IN  Done(create_account(db, account, net))
    /\ ops' = ops + 1
    /\ UNCHANGED <<req, up, tasks>>

UpdateAccountToken ==
    /\ ops < MaxCalls
    /\ \E account_id \in AccountIds, body \in TokenBodies,
          net \in AccountNets :
          LET Done(r) ==
                  /\ db' = r.db
                  /\ out' = [op |-> "update_account_token", before |-> db,
                             account |-> body,
                             userid |-> net.rdata.user_config.userid,
                             status |-> r.status,
                             account_id |-> account_id]
          IN  Done(update_account_token(db, account_id, body, net))
    /\ ops' = ops + 1
    /\ UNCHANGED <<req, up, tasks>>

DeleteAccount ==
    /\ ops < MaxCalls
    /\ \E account_id \in AccountIds :
          LET Done(r) ==
                  /\ db' = r.db
                  /\ out' = [op |-> "delete_account", before |-> db,
                             status |-> r.status,
                             account_id |-> account_id]
          IN  Done(delete_account(db, account_id))
    /\ ops' = ops + 1
    /\ UNCHANGED <<req, up, tasks>>

NextAccounts == CreateAccount \/ UpdateAccountToken \/ DeleteAccount

SpecAccounts == InitAccounts /\ [][NextAccounts]_vars

\* the rows of a database that belong to an upstream user
RowsOfUser(d, uid) ==
    {i \in DOMAIN d.accounts : d.accounts[i].nideriji_userid = uid}

\* a finished create_account whose token belongs to a user with a row
Readded ==
    /\ out.op = "create_account"
    /\ out.status = 200
    /\ RowsOfUser(out.before, out.userid) # {}

\* C18: after any sequence of create_account, update_account_token and
\* delete_account calls no two Account rows share an upstream user id;
\* adding an account whose user already has a row inserts nothing and leaves
\* that row active with the new token; a delete changes nothing but the
\* is_active flag of its row, which becomes false.
C18_OneRowPerUser ==
    /\ \A i, j \in DOMAIN db.accounts :
          db.accounts[i].nideriji_userid = db.accounts[j].nideriji_userid
              => i = j
    /\ Readded =>
          /\ Len(db.accounts) = Len(out.before.accounts)
          /\ \A i \in RowsOfUser(db, out.userid) :
                /\ db.accounts[i].is_active
                /\ db.accounts[i].id = out.account_id
                /\ db.accounts[i].id = out.before.accounts[i].id
                /\ HasText(out.account.auth_token)
                   => db.accounts[i].auth_token =
                          _normalize_auth_token(out.account.auth_token).token
    /\ out.op = "delete_account" =>
          /\ Len(db.accounts) = Len(out.before.accounts)
          /\ \A i \in DOMAIN db.accounts :
                /\ [db.accounts[i] EXCEPT !.is_active = TRUE]
                       = [out.before.accounts[i] EXCEPT !.is_active = TRUE]
                /\ db.accounts[i].is_active =
                       (out.before.accounts[i].is_active
                        /\ ~(out.status = 200
                             /\ db.accounts[i].id = out.account_id))
          /\ db.users = out.before.users

\* an account deleted earlier is added again: its row is active once more
C18_Witness ==
    /\ Readded
    /\ \E i \in RowsOfUser(out.before, out.userid) :
          /\ ~out.before.accounts[i].is_active
          /\ db.accounts[i].is_active
          /\ db.accounts[i].auth_token # out.before.accounts[i].auth_token

\* a delete of an active account has finished
C18_WitnessDeleted ==
    /\ out.op = "delete_account"
    /\ out.status = 200
    /\ \E i \in DOMAIN db.accounts :
          out.before.accounts[i].is_active /\ ~db.accounts[i].is_active

---------------------------------------------------------------------------
\* Bookmarks (api/diaries.py, upsert_diary_bookmark), after syncs that store
\* the diary

\* the attributes the Diary class maps (models/diary.py); _ensure_schema
\* (database.py) adds no column to the diaries table
DiaryColumns ==
    {"id", "nideriji_diary_id", "user_id", "account_id", "title", "content",
     "created_date", "created_time", "weather", "mood", "mood_id",
     "mood_color", "space", "is_simple", "msg_count", "ts", "created_at",
     "updated_at"}

\* the bookmarked_at column of a row, None where the table has none
BookmarkedAt(row) ==
    IF "bookmarked_at" \in DOMAIN row THEN row.bookmarked_at ELSE NoneInt

\* upsert_diary_bookmark: the UPDATE is built from the class attribute
\* Diary.bookmarked_at; evaluating an attribute the class does not have
\* raises AttributeError before any statement is sent (a 500 response).
\* The branch below it is the handler as written: a conditional UPDATE that
\* touches the row only when its state differs, then the SELECT and the 404.
upsert_diary_bookmark(d, diary_id, bookmarked, now_ms) ==
    LET Hit(row) ==
            row.id = diary_id /\ (BookmarkedAt(row) = NoneInt) = bookmarked
        value == IF bookmarked THEN now_ms ELSE NoneInt
        Updated(rows) ==
            [i \in DOMAIN rows |->
                IF Hit(rows[i]) THEN [bookmarked_at |-> value] @@ rows[i]
                ELSE rows[i]]
        Found(rows) == LET P(r) == r.id = diary_id IN SelectSeq(rows, P)
    IN  IF "bookmarked_at" \notin DiaryColumns
        THEN [db |-> d, status |-> 500, exc |-> "attribute",
              bookmarked_at |-> NoneInt]
        ELSE IF Found(d.diaries) = <<>>
        THEN [db |-> d, status |-> 404, exc |-> "http",
              bookmarked_at |-> NoneInt]
        ELSE [db |-> [d EXCEPT !.diaries = Updated(@)], status |-> 200,
              exc |-> "none",
              bookmarked_at |-> BookmarkedAt(Found(Updated(d.diaries))[1])]

\* PUT /diaries/{diary_id}/bookmark at one of two times
PutBookmark ==
    /\ req = Idle
    /\ ops < MaxOps
    /\ \E diary_id \in {1, 2}, bookmarked \in BOOLEAN, now_ms \in {1000, 2000} :
          LET Done(r) ==
                  /\ db' = r.db
                  /\ out' = [op |-> "bookmark", before |-> db,
                             diary_id |-> diary_id,
                             bookmarked |-> bookmarked, now_ms |-> now_ms,
                             status |-> r.status, exc |-> r.exc,
                             bookmarked_at |-> r.bookmarked_at]
          IN  Done(upsert_diary_bookmark(db, diary_id, bookmarked, now_ms))
    /\ ops' = ops + 1
    /\ UNCHANGED <<req, up, tasks>>

NextBookmark == CallSync(SeqNets) \/ RunSync \/ PutBookmark

SpecBookmark == Init /\ [][NextBookmark]_vars

\* the rows with the call's diary id in the database the call started from
BookmarkTarget ==
    LET P(r) == r.id = out.diary_id IN SelectSeq(out.before.diaries, P)

\* C19: a bookmark call for a diary id that does not exist fails with 404
\* and changes no row; for an existing diary it succeeds, and afterwards
\* bookmarked_at is the value it had if the diary was already bookmarked,
\* the call's time if it was not and is to be, and null if it is to be
\* un-bookmarked (so repeating a call changes nothing).
C19_BookmarkIdempotent ==
    out.op = "bookmark" =>
        IF BookmarkTarget = <<>>
        THEN out.status = 404 /\ db = out.before
        ELSE /\ out.status = 200
             /\ out.bookmarked_at =
                    IF ~out.bookmarked THEN NoneInt
                    ELSE IF BookmarkedAt(BookmarkTarget[1]) # NoneInt
                    THEN BookmarkedAt(BookmarkTarget[1])
                    ELSE out.now_ms
             /\ \A i \in DOMAIN db.diaries :
                   db.diaries[i].id = out.diary_id
                       => BookmarkedAt(db.diaries[i]) = out.bookmarked_at

---------------------------------------------------------------------------
\* Message-count statistics (api/stats.py, get_msg_count_increase) over the
\* events the CAS records.  Times are milliseconds since the epoch; the
\* clock moves in half seconds.

MaxClock == 5

MaxEvents == 3

\* server_default=func.now() of DiaryMsgCountEvent.recorded_at, the only way
\* the program stamps an event: SQLite's CURRENT_TIMESTAMP is the text
\* "YYYY-MM-DD HH:MM:SS", whole seconds without a fraction; PostgreSQL's
\* now() is a timestamp with its fraction.  frac tells whether the stored
\* value has a fractional part.
ServerNow(dialect, now_ms) ==
    IF dialect = "sqlite"
    THEN [ms |-> (now_ms \div 1000) * 1000, frac |-> FALSE]
    ELSE [ms |-> now_ms, frac |-> TRUE]

\* datetime.fromtimestamp(ms / 1000) as a bound parameter: the SQLite
\* DateTime type renders it as text with six fractional digits, always
BoundTime(ms) == [ms |-> ms, frac |-> TRUE]

\* a < b as the database compares them: SQLite compares the texts byte by
\* byte, so within one second a text without a fraction, being a prefix,
\* is less than every text with one; PostgreSQL compares the instants
TimeLess(dialect, a, b) ==
    IF dialect # "sqlite" THEN a.ms < b.ms
    ELSE IF a.ms \div 1000 # b.ms \div 1000 THEN a.ms < b.ms
    ELSE IF a.frac /\ b.frac THEN a.ms < b.ms
    ELSE ~a.frac /\ b.frac

\* the rows of the grouped query in an order the ORDER BY allows
SortedRows(dialect, rows) ==
    {o \in [1 .. Cardinality(rows) -> rows] :
        /\ \A i, j \in DOMAIN o : o[i] = o[j] => i = j
        /\ \A i, j \in DOMAIN o :
              i < j => \/ o[i].delta > o[j].delta
                       \/ /\ o[i].delta = o[j].delta
                          /\ ~TimeLess(dialect, o[i].last_event_at,
                                       o[j].last_event_at)}

\* get_msg_count_increase: the responses the query can produce (the order
\* of rows equal in both sort keys is the database's choice)
get_msg_count_increase(d, dialect, since_ms, until_ms, limit) ==
    LET since_dt == BoundTime(since_ms)
        until_dt == BoundTime(until_ms)
        base_filters(e) ==
            /\ ~TimeLess(dialect, e.recorded_at, since_dt)
            /\ until_ms # NoneInt => TimeLess(dialect, e.recorded_at, until_dt)
        total_delta == DeltaSum(SelectSeq(d.events, base_filters))
        Joined(e) ==
            /\ base_filters(e)
            /\ \E i \in DOMAIN d.diaries :
                  /\ d.diaries[i].id = e.diary_id
                  /\ d.diaries[i].account_id = e.account_id
            /\ \E i \in DOMAIN d.accounts : d.accounts[i].id = e.account_id
        joined == SelectSeq(d.events, Joined)
        keys == {<<joined[i].account_id, joined[i].diary_id>> : i \in DOMAIN joined}
        Of(k) == LET P(e) == e.account_id = k[1] /\ e.diary_id = k[2]
                 IN  SelectSeq(joined, P)
        Latest(es) ==
            CHOOSE m \in {es[i].recorded_at : i \in DOMAIN es} :
                \A i \in DOMAIN es : ~TimeLess(dialect, m, es[i].recorded_at)
        rows == {[account_id |-> k[1], diary_id |-> k[2],
                  delta |-> DeltaSum(Of(k)),
                  last_event_at |-> Latest(Of(k))] : k \in keys}
    IN  IF until_ms # NoneInt /\ until_ms <= since_ms
        THEN {[status |-> 422, total_delta |-> 0, items |-> <<>>]}
        ELSE {[status |-> 200, total_delta |-> total_delta,
               items |-> SubSeq(o, 1, IF limit < Len(o) THEN limit ELSE Len(o))] :
                 o \in SortedRows(dialect, rows)}

\* two accounts with one stored diary each
InitStatsDb ==
    [InitDbTwo EXCEPT
        !.diaries = <<DiaryRow(1, 1, 1, 1, PairedRec),
                      DiaryRow(2, 2, 2, 2, PairedRec)>>]

InitStats ==
    /\ db = InitStatsDb
    /\ req = Idle
    /\ out = NoOut
    /\ ops = 0
    /\ up = 2
    /\ tasks \in [dialect : {"sqlite", "postgresql"}]

\* half a second passes
StatsTick ==
    /\ up < MaxClock
    /\ up' = up + 1
    /\ out' = NoOut
    /\ UNCHANGED <<db, req, ops, tasks>>

\* a sync sees a diary's count grown: the CAS writes the count and its
\* event, which the database stamps with its clock
RecordGrowth ==
    /\ Len(db.events) < MaxEvents
    /\ \E i \in DOMAIN db.diaries, growth \in {1, 2} :
          LET Stamped(events) ==
                  [j \in DOMAIN events |->
                      IF "recorded_at" \in DOMAIN events[j] THEN events[j]
                      ELSE [recorded_at |->
                                ServerNow(tasks.dialect, up * 500)] @@ events[j]]
              Done(r) == db' = [r.db EXCEPT !.events = Stamped(@)]
          IN  Done(_cas_update_diary_msg_count(
                       db, db.diaries[i], db.diaries[i].account_id,
                       db.diaries[i].msg_count + growth, "sync", NoneInt))
    /\ out' = NoOut
    /\ UNCHANGED <<req, ops, up, tasks>>

\* GET /stats/msg-count/increase
QueryIncrease ==
    /\ \E since_ms \in {1000, 1500, 2000},
          until_ms \in {NoneInt, 1000, 2000, 2500}, limit \in {1, 2} :
          \E r \in get_msg_count_increase(db, tasks.dialect, since_ms,
                                          until_ms, limit) :
              out' = [op |-> "increase", since_ms |-> since_ms,
                      until_ms |-> until_ms, limit |-> limit,
                      status |-> r.status, total_delta |-> r.total_delta,
                      items |-> r.items]
    /\ UNCHANGED <<db, req, ops, up, tasks>>

NextStats == StatsTick \/ RecordGrowth \/ QueryIncrease

SpecStats == InitStats /\ [][NextStats]_vars

\* the events of the window [since, until) of the finished query, by the
\* instants their recorded_at values denote
InWindow(e) ==
    /\ out.since_ms <= e.recorded_at.ms
    /\ out.until_ms # NoneInt => e.recorded_at.ms < out.until_ms

WindowOf(account_id, diary_id) ==
    LET P(e) == InWindow(e) /\ e.account_id = account_id
                /\ e.diary_id = diary_id
    IN  SelectSeq(db.events, P)

WindowKeys ==
    {<<db.events[i].account_id, db.events[i].diary_id>> :
        i \in {j \in DOMAIN db.events : InWindow(db.events[j])}}

LastOf(es) ==
    CHOOSE m \in {es[i].recorded_at.ms : i \in DOMAIN es} :
        \A i \in DOMAIN es : es[i].recorded_at.ms <= m

\* C20: for a finished get_msg_count_increase over [since, until),
\* total_delta is the sum of delta over all events with
\* since <= recorded_at < until, whatever the limit; items hold one entry
\* per (account, diary) with events in the window, carrying the sum of
\* their deltas, in descending order of that sum and, for equal sums, of
\* the latest event time, and they are the first limit entries of that
\* order.
C20_WindowTotals ==
    (out.op = "increase" /\ out.status = 200) =>
        /\ out.total_delta = DeltaSum(SelectSeq(db.events, InWindow))
        /\ Len(out.items) =
               IF out.limit < Cardinality(WindowKeys) THEN out.limit
               ELSE Cardinality(WindowKeys)
        /\ \A i \in DOMAIN out.items :
              /\ <<out.items[i].account_id, out.items[i].diary_id>> \in WindowKeys
              /\ out.items[i].delta =
                     DeltaSum(WindowOf(out.items[i].account_id,
                                       out.items[i].diary_id))
              /\ out.items[i].last_event_at.ms =
                     LastOf(WindowOf(out.items[i].account_id,
                                     out.items[i].diary_id))
        /\ \A i, j \in DOMAIN out.items :
              i < j =>
                  /\ <<out.items[i].account_id, out.items[i].diary_id>>
                         # <<out.items[j].account_id, out.items[j].diary_id>>
                  /\ \/ out.items[i].delta > out.items[j].delta
                     \/ /\ out.items[i].delta = out.items[j].delta
                        /\ out.items[i].last_event_at.ms
                               >= out.items[j].last_event_at.ms
        /\ \A k \in WindowKeys :
              (\A i \in DOMAIN out.items :
                   k # <<out.items[i].account_id, out.items[i].diary_id>>)
                  => \A i \in DOMAIN out.items :
                        \/ out.items[i].delta > DeltaSum(WindowOf(k[1], k[2]))
                        \/ /\ out.items[i].delta = DeltaSum(WindowOf(k[1], k[2]))
                           /\ out.items[i].last_event_at.ms
                                  >= LastOf(WindowOf(k[1], k[2]))

\* the same statement for the runs on PostgreSQL
C20_OnPostgres == tasks.dialect = "postgresql" => C20_WindowTotals

\* a query on PostgreSQL that cut two entries of different sums to the first
C20_PostgresCase ==
    /\ tasks.dialect = "postgresql"
    /\ out.op = "increase"
    /\ out.status = 200
    /\ out.limit = 1
    /\ Cardinality(WindowKeys) = 2
    /\ Len(db.events) = 3
    /\ out.total_delta > out.items[1].delta

---------------------------------------------------------------------------
\* The life of a SyncLog row (SpecLock)

\* the invocation that committed the row and has not left sync_account yet
OwnerRunning(log) ==
    \E t \in Invocations :
        /\ tasks.run[t].pc \in {"started", "fetched", "loaded", "committed"}
        /\ tasks.run[t].sync_log_id = log.id

\* C21: no sync_account run ends, by return or by exception, leaving the
\* SyncLog row it committed in status running: every row that reads running
\* belongs to a run that is still on its way (every step of a run is
\* enabled until the run ends, so a run scheduled fairly does end).
C21_NoAbandonedLog ==
    \A i \in DOMAIN db.logs :
        db.logs[i].status = "running" => OwnerRunning(db.logs[i])

\* C22: a SyncLog row is created with status running, changes status at
\* most once, only to success or failed, and a row that has reached success
\* or failed is never modified again, whatever the run does after its
\* success commit.
C22_LogLifecycle ==
    [][/\ \A i \in DOMAIN db.logs :
             /\ i \in DOMAIN db'.logs
             /\ \/ db'.logs[i] = db.logs[i]
                \/ /\ db.logs[i].status = "running"
                   /\ db'.logs[i].status \in {"success", "failed"}
                   /\ db'.logs[i].id = db.logs[i].id
                   /\ db'.logs[i].account_id = db.logs[i].account_id
       /\ \A i \in DOMAIN db'.logs \ DOMAIN db.logs :
             db'.logs[i].status = "running"]_vars

---------------------------------------------------------------------------
\* The order of the steps of sync_account (SpecPair)

\* the place of a step among the steps of the finished sync, 0 when the
\* step was not made
StepAt(step) ==
    LET hits == {i \in DOMAIN out.steps : out.steps[i] = step}
    IN  IF hits = {} THEN 0 ELSE CHOOSE i \in hits : \A j \in hits : i <= j

\* those of the named steps that were made were made in the order named
InOrder(names) ==
    \A i, j \in DOMAIN names :
        (i < j /\ StepAt(names[i]) > 0 /\ StepAt(names[j]) > 0)
            => StepAt(names[i]) < StepAt(names[j])

\* the rows of the partner's diaries stored under account 1
PartnerDiaries(d) ==
    LET partner == UserByNid(d, PartnerUid)
    IN  IF partner = NoRow THEN {}
        ELSE {i \in DOMAIN d.diaries :
                 d.diaries[i].account_id = 1 /\ d.diaries[i].user_id = partner.id}

---------------------------------------------------------------------------
\* Diary history

\* a handler that reconciles has finished
Reconciled == out.op \in {"sync", "refresh"}

\* the history rows the finished handler appended for a diary
AppendedFor(diary_id) ==
    LET P(h) == h.diary_id = diary_id
    IN  SelectSeq(SubSeq(db.history, Len(out.before.history) + 1,
                         Len(db.history)), P)

\* the finished handler changed the stored title or content of the diary
\* that was row i before it
TextChanged(i) ==
    \/ db.diaries[i].title # out.before.diaries[i].title
    \/ db.diaries[i].content # out.before.diaries[i].content

\* C24: whenever a sync or a refresh changes the stored title or content of
\* an existing diary, it appends in the same step exactly one DiaryHistory
\* row, holding the diary's title, content, weather, mood and ts as stored
\* immediately before; for a diary whose title and content it leaves as
\* they were it appends none; the rows that existed are neither modified
\* nor deleted.
C24_HistoryOnChange ==
    Reconciled =>
        /\ Len(db.history) >= Len(out.before.history)
        /\ SubSeq(db.history, 1, Len(out.before.history)) = out.before.history
        /\ \A i \in DOMAIN out.before.diaries :
              IF TextChanged(i)
              THEN AppendedFor(out.before.diaries[i].id)
                      = <<HistoryRow(out.before.diaries[i])>>
              ELSE AppendedFor(out.before.diaries[i].id) = <<>>

---------------------------------------------------------------------------
\* The message-count ledger as a table

\* what every DiaryMsgCountEvent row satisfies by itself, d being the
\* database that holds it
EventSound(e, d) ==
    /\ e.delta = e.new_msg_count - e.old_msg_count
    /\ e.delta > 0
    /\ e.old_msg_count >= 0
    /\ \/ /\ e.source = "sync"
          /\ LogOf(d, e.sync_log_id) # NoRow
          /\ LogOf(d, e.sync_log_id).account_id = e.account_id
       \/ /\ e.source = "refresh"
          /\ e.sync_log_id = NoneInt

\* the step that added event e raised the stored count of e's diary from
\* e.old_msg_count (null counting as 0) to e.new_msg_count, and, for a sync,
\* is the step that finalized the log e names
AddedByCas(e) ==
    /\ \E i \in DOMAIN db.diaries :
          /\ db.diaries[i].id = e.diary_id
          /\ db.diaries[i].account_id = e.account_id
          /\ \/ db.diaries[i].msg_count = e.old_msg_count
             \/ e.old_msg_count = 0 /\ db.diaries[i].msg_count = NoneInt
          /\ db'.diaries[i].id = e.diary_id
          /\ db'.diaries[i].msg_count = e.new_msg_count
    /\ e.source = "sync" =>
          /\ LogOf(db', e.sync_log_id).status \in {"success", "failed"}
          /\ \/ LogOf(db, e.sync_log_id) = NoRow
             \/ LogOf(db, e.sync_log_id).status = "running"

\* C25: every DiaryMsgCountEvent has delta = new_msg_count - old_msg_count,
\* delta > 0 and old_msg_count >= 0; the step that inserted it is a
\* message-count CAS that matched the stored count and set it to
\* new_msg_count; its source is sync with the id of the emitting run's
\* SyncLog, or refresh with a null sync-log id; and no step modifies or
\* deletes an event.
C25_LedgerRows ==
    [][/\ Len(db'.events) >= Len(db.events)
       /\ SubSeq(db'.events, 1, Len(db.events)) = db.events
       /\ \A k \in DOMAIN db'.events : EventSound(db'.events[k], db')
       /\ \A k \in DOMAIN db'.events \ DOMAIN db.events :
             AddedByCas(db'.events[k])]_vars

\* the ledger holds an event of a sync and one of a refresh
C25_Witness ==
    /\ \E k \in DOMAIN db.events :
          db.events[k].source = "sync" /\ db.events[k].sync_log_id > 0
    /\ \E k \in DOMAIN db.events :
          db.events[k].source = "refresh" /\ db.events[k].sync_log_id = NoneInt

---------------------------------------------------------------------------
\* A message-count CAS that matches no row (SpecConc)

\* the count the finished handler's session had read, as the CAS uses it
ReadCount == _normalize_msg_count(out.read.msg_count)

\* the count and the account id the finished handler passed to the CAS
PassedCount == _normalize_msg_count(Candidate.msg_count)

PassedAccount ==
    IF out.op = "sync" THEN out.call.account_id ELSE out.read.account_id

\* the finished handler reached the CAS and the CAS sent its UPDATE (every
\* call of these runs is answered, so a handler with a candidate reaches it)
CasSent ==
    /\ out.op \in {"sync", "refresh"}
    /\ Candidate # NoRec
    /\ out.read.id > 0
    /\ out.op = "sync" => "save_diaries" \in SeqToSet(out.steps)
    /\ out.read.msg_count = NoneInt \/ PassedCount # ReadCount

\* the stored count is no longer the one read
CountMoved ==
    IF ReadCount = 0 THEN Before.msg_count \notin {0, NoneInt}
    ELSE Before.msg_count # ReadCount

\* the row belongs to another account than the one passed
OtherAccount == Before.account_id # PassedAccount

\* the text the handler stores for its candidate
CandidateText ==
    IF out.op = "refresh" THEN StripBom(OrEmpty(Candidate.content))
    ELSE OrEmpty(Candidate.content)

C26_WitnessAccount ==
    /\ out.op = "sync"
    /\ CasSent
    /\ OtherAccount
    /\ ~CountMoved
    /\ PassedCount = 1
    /\ After.msg_count = 0
    /\ After.content # Before.content

---------------------------------------------------------------------------
\* Detail-fetch bookkeeping

\* the tracker rows of a diary
FetchRowsOf(d, diary_id) == {i \in DOMAIN d.fetches : d.fetches[i].diary_id = diary_id}

\* the finished handler made a detail request for diary 1 and recorded its
\* outcome (a sync asks only for diaries it holds without full content, so
\* the guard never skips the record)
AttemptRecorded ==
    /\ out.op \in {"sync", "refresh"}
    /\ Requested(1)
    /\ out.op = "sync" => "finish_success" \in SeqToSet(out.steps)
    /\ out.op = "refresh" => out.exc = "none"

AttemptsOf(state) == IF state = NoRow THEN 0 ELSE state.attempts

\* C27: there is at most one DiaryDetailFetch row per diary; a recorded
\* attempt creates the row if absent and increases attempts by exactly 1, so
\* attempts counts the attempts recorded; last_detail_is_short implies
\* last_detail_success.
C27_AttemptsCounted ==
    /\ \A i \in DOMAIN db.diaries :
          Cardinality(FetchRowsOf(db, db.diaries[i].id)) <= 1
    /\ \A i \in DOMAIN db.fetches :
          db.fetches[i].last_detail_is_short => db.fetches[i].last_detail_success
    /\ AttemptRecorded =>
          /\ StateAfter # NoRow
          /\ StateAfter.attempts = AttemptsOf(StateBefore) + 1

---------------------------------------------------------------------------
\* The detail request of refresh_diary

\* a refresh of the stored diary 1 that got its bulk payload
RefreshWithPayload ==
    /\ out.op = "refresh"
    /\ Before # NoRow
    /\ out.exc = "none"

\* the payload's record of diary 1 in a finished refresh, or NoRec
RefreshRecord == Matched(out.call.net.rdata, 1)

\* C28: refresh_diary makes a detail request for its diary, one request
\* carrying the diary's id, exactly when the bulk payload does not list the
\* diary or lists it with is_simple = 1 or a stripped content shorter than
\* 100, whatever the diary's DiaryDetailFetch row says; it makes none when
\* the record has is_simple # 1 and stripped content of 100 or more.
C28_RefreshDetailRule ==
    RefreshWithPayload =>
        IF \/ RefreshRecord = NoRec
           \/ RefreshRecord.is_simple = 1
           \/ _content_len(RefreshRecord.content) < _DETAIL_CONTENT_MIN_LEN
        THEN out.requests = << <<1>> >>
        ELSE out.requests = <<>>

\* a refresh asked for detail although the tracker row marks the diary as
\* permanently short
C28_Witness ==
    /\ RefreshWithPayload
    /\ IsPermanentlyShort(StateBefore)
    /\ RefreshRecord # NoRec
    /\ RefreshRecord.is_simple = 0
    /\ ~IsLong(RefreshRecord.content)
    /\ out.requests = << <<1>> >>

\* a refresh whose payload held the complete record asked for none
C28_WitnessNone ==
    /\ RefreshWithPayload
    /\ RefreshRecord # NoRec
    /\ RefreshRecord.is_simple = 0
    /\ IsLong(RefreshRecord.content)
    /\ out.requests = <<>>

---------------------------------------------------------------------------
\* Runs whose payloads change the metadata of the diary and carry a BOM

\* a BOM followed by 99 characters
Bom99 == <<[c |-> "bom", n |-> 1], [c |-> "a", n |-> 99]>>

MetaRecs ==
    [id : {1}, title : {"A", "B"}, content : {Short99, Long150, Bom99},
     weather : {"sun", "rain"}, mood : {"ok"}, is_simple : {0},
     msg_count : {0, MaxMsg}, ts : {1, 2}]

MetaNets ==
    [first : {"200"}, login : {OkLogin}, second : {"200"},
     rdata : [user_config : {OwnConfig},
              diaries : {<<r>> : r \in MetaRecs},
              diaries_paired : {<<>>}],
     details : [status : {"200"}, recs : [{1} -> {NoRec}]]]

NextMeta == CallSync(MetaNets) \/ CallRefresh(MetaNets) \/ RunSync \/ RunRefresh

SpecMeta == Init /\ [][NextMeta]_vars

\* the finished handler reconciled a candidate the guard rejects: shorter
\* than the threshold, for a diary stored with full content
GuardRejected ==
    /\ out.op \in {"sync", "refresh"}
    /\ Before # NoRow
    /\ Candidate # NoRec
    /\ out.op = "sync" => "save_diaries" \in SeqToSet(out.steps)
    /\ out.op = "refresh" => out.exc = "none"
    /\ ~IsLong(CandidateText)
    /\ IsLong(Before.content)

\* C29 as stated: when the guard rejects a candidate in batch sync or in
\* refresh, content and title are kept while the message count and the
\* other metadata of the record (weather, mood, ts) are applied to the
\* stored diary.
C29_MetadataApplied ==
    GuardRejected =>
        /\ After.content = Before.content
        /\ After.title = Before.title
        /\ After.msg_count = _normalize_msg_count(Candidate.msg_count)
        /\ After.weather = Candidate.weather
        /\ After.mood = Candidate.mood
        /\ After.ts = Candidate.ts

\* C29 amended: when the guard rejects a candidate in batch sync or in
\* refresh, content and title are kept and the message count of the record
\* is applied (the CAS runs before the guard); weather, mood and ts of the
\* record are not applied, the stored values stay, and no history row is
\* written.
C29_OnlyCountApplied ==
    GuardRejected =>
        /\ After.content = Before.content
        /\ After.title = Before.title
        /\ After.msg_count = _normalize_msg_count(Candidate.msg_count)
        /\ After.weather = Before.weather
        /\ After.mood = Before.mood
        /\ After.ts = Before.ts
        /\ db.history = out.before.history

\* a sync whose rejected record carried a new count, weather and ts: the
\* count was stored, weather and ts were not
C29_Witness ==
    /\ GuardRejected
    /\ out.op = "sync"
    /\ Candidate.weather # Before.weather
    /\ Candidate.ts # Before.ts
    /\ Candidate.msg_count = 1
    /\ Before.msg_count = 0
    /\ After.msg_count = 1
    /\ After.weather = Before.weather
    /\ After.ts = Before.ts

\* the same for a refresh
C29_WitnessRefresh ==
    /\ GuardRejected
    /\ out.op = "refresh"
    /\ Candidate.weather # Before.weather
    /\ Candidate.msg_count = 1
    /\ Before.msg_count = 0
    /\ After.msg_count = 1
    /\ After.weather = Before.weather
    /\ out.info.updated

\* whether a text starts with a BOM
StartsWithBom(content) ==
    content # NoneStr /\ content # EmptyStr /\ Head(content).c = "bom"

\* a handler that stored its candidate's text: the diary was created, or
\* its content replaced, by the finished call
StoredCandidate ==
    /\ out.op \in {"sync", "refresh"}
    /\ After # NoRow
    /\ Candidate # NoRec
    /\ Before = NoRow \/ After.content # Before.content

\* C30: in the batch path and in the refresh path, content arriving with a
\* leading BOM has the BOM removed before its length is compared with the
\* threshold and before it is stored: no stored content starts with a BOM, a
\* handler that stores its candidate stores it without the BOM, and a
\* record whose content without the BOM is shorter than 100 is treated as
\* needing detail.
C30_BomStripped ==
    /\ \A i \in DOMAIN db.diaries : ~StartsWithBom(db.diaries[i].content)
    /\ StoredCandidate => After.content = StripBom(OrEmpty(Candidate.content))
    /\ (out.op \in {"sync", "refresh"} /\ out.exc = "none"
        /\ Matched(out.call.net.rdata, 1) # NoRec
        /\ (out.op = "sync" => Before = NoRow)
        /\ _content_len(StripBom(OrEmpty(Matched(out.call.net.rdata, 1).content)))
              < _DETAIL_CONTENT_MIN_LEN)
          => Requested(1)

\* the part of C30 that holds: a refresh that stores its candidate stores it
\* without the BOM
C30_RefreshStrips ==
    (StoredCandidate /\ out.op = "refresh")
        => After.content = StripBom(OrEmpty(Candidate.content))

\* a refresh replaced the content by a text that arrived with a BOM
C30_RefreshCase ==
    /\ StoredCandidate
    /\ out.op = "refresh"
    /\ StartsWithBom(Candidate.content)
    /\ ~StartsWithBom(After.content)

---------------------------------------------------------------------------
\* Runs whose payloads vary the createddate of the record

LaxDate == <<"2", "0", "2", "4", "-", "1", "-", "5">>

NoSuchDay == <<"2", "0", "2", "4", "-", "0", "2", "-", "3", "0">>

SlashDate == <<"2", "0", "2", "4", "/", "0", "1", "/", "0", "5">>

DateStrings == {WellFormedDate, LaxDate, NoSuchDay, SlashDate, <<>>}

DateRecs ==
    [id : {1}, title : {"A", "B"}, content : {Long100, Long150},
     weather : {"sun"}, mood : {"ok"}, is_simple : {0},
     msg_count : {0}, ts : {1}, createddate : DateStrings]

DateNets ==
    [first : {"200"}, login : {OkLogin}, second : {"200"},
     rdata : [user_config : {OwnConfig},
              diaries : {<<r>> : r \in DateRecs},
              diaries_paired : {<<>>}],
     details : [status : {"200"}, recs : [{1} -> {NoRec}]]]

NextDate == CallSync(DateNets) \/ RunSync

SpecDate == Init /\ [][NextDate]_vars

\* s is a date of the calendar written as YYYY-MM-DD
IsYmd(s) ==
    /\ Len(s) = 10
    /\ \A i \in {1, 2, 3, 4, 6, 7, 9, 10} : s[i] \in Digits
    /\ s[5] = "-" /\ s[8] = "-"
    /\ Number(s, 1, 4) >= 1
    /\ Number(s, 6, 7) \in 1..12
    /\ Number(s, 9, 10) \in 1..DaysIn(Number(s, 1, 4), Number(s, 6, 7))

\* the finished sync had a record whose createddate is no such date
MalformedDateSync ==
    /\ out.op = "sync"
    /\ SyncRecord # NoRec
    /\ ~IsYmd(CreatedDate(SyncRecord))

\* C31: a sync whose batch holds a record with a createddate that is not a
\* valid YYYY-MM-DD date ends with status failed, whether the record's diary
\* is new or already stored, and stores nothing of the record
C31_MalformedDateFails ==
    MalformedDateSync =>
        /\ out.status = "failed"
        /\ After = Before

\* the part of C31 the code upholds: a record of a diary not yet stored
\* whose date strptime refuses makes the sync fail with ValueError, and no
\* diary is stored
C31_NewDiaryRefused ==
    (/\ out.op = "sync"
     /\ SyncRecord # NoRec
     /\ Before = NoRow
     /\ ~strptime_Ymd(CreatedDate(SyncRecord)).ok)
        => /\ out.status = "failed"
           /\ out.exc = "value"
           /\ After = NoRow

\* a sync failed on the date of a new diary
C31_NewDiaryCase ==
    /\ MalformedDateSync
    /\ Before = NoRow
    /\ out.exc = "value"

\* a sync succeeded with a malformed date on a record of a stored diary,
\* and changed the diary
C31_StoredDiaryCase ==
    /\ MalformedDateSync
    /\ ~strptime_Ymd(CreatedDate(SyncRecord)).ok
    /\ Before # NoRow
    /\ out.status = "success"
    /\ After # Before

---------------------------------------------------------------------------
\* The scheduler's tick: sync_all_accounts opens one session, selects the
\* active accounts and calls sync_account for each in turn, all through that
\* session.  Meanwhile a manual trigger may sync the partner's account in a
\* session of its own.  The tick's steps are the stretches between the
\* awaits that matter: the select, the committed running log, the loads of
\* _save_diaries, the statements up to the final commit.

\* select(Account).where(Account.is_active.is_(True)): the ids, in row order
ActiveAccounts(d) ==
    LET P(row) == row.is_active IN IdsOf(SelectSeq(d.accounts, P))

\* what the upstream answers during the tick: account 1 lists its own diary
\* 1 or nothing, account 2 lists nothing; its bulk call may fail
TickNets(account_id) ==
    IF account_id = 1
    THEN {[FirstNet(Long150, 0) EXCEPT !.first = f, !.rdata.diaries = ds] :
             f \in {"200", "500"},
             ds \in {<<>>, FirstNet(Long150, 0).rdata.diaries}}
    ELSE {[PartnerNet(Long150, 0) EXCEPT !.first = f,
                                         !.rdata.diaries_paired = <<>>] :
             f \in {"200", "500"}}

\* what it answers the manual trigger of account 2: diary 1 is in the
\* paired list, or nothing is
ManualNets ==
    {[PartnerNet(Long150, 0) EXCEPT !.rdata.diaries_paired = ds] :
        ds \in {<<>>, PartnerNet(Long150, 0).rdata.diaries_paired}}

InitTick ==
    /\ \E a1, a2 \in BOOLEAN :
          db = [InitDbTwo EXCEPT !.accounts[1].is_active = a1,
                                 !.accounts[2].is_active = a2]
    /\ tasks = [pc |-> "idle", calls |-> <<>>, results |-> <<>>]
    /\ req = Idle
    /\ out = NoOut
    /\ ops = 0
    /\ up = 0

\* the tick selects the active accounts; with none it returns
TickBegin ==
    /\ tasks.pc = "idle"
    /\ tasks' = [pc |-> IF ActiveAccounts(db) = <<>> THEN "done" ELSE "next",
                 accounts |-> ActiveAccounts(db), i |-> 1,
                 calls |-> <<>>, results |-> <<>>]
    /\ UNCHANGED <<db, req, out, ops, up>>

\* sync_account is called for the next account: the account is loaded, the
\* running log added and committed
TickCall ==
    /\ tasks.pc = "next"
    /\ db' = _start_sync_log(db, tasks.accounts[tasks.i])
    /\ tasks' = [tasks EXCEPT !.pc = "started",
                              !.calls = Append(@, tasks.accounts[tasks.i])]
    /\ UNCHANGED <<req, out, ops, up>>

\* the bulk call is answered and _save_diaries loads the Diary objects of
\* the account's own batch
TickLoad ==
    /\ tasks.pc = "started"
    /\ \E net \in TickNets(tasks.accounts[tasks.i]) :
          tasks' = [pc |-> "loaded", accounts |-> tasks.accounts,
                    i |-> tasks.i, calls |-> tasks.calls,
                    results |-> tasks.results,
                    account |-> AccountById(db, tasks.accounts[tasks.i]),
                    sync_log_id |-> Len(db.logs), net |-> net,
                    loaded |-> LoadedDiaries(db, net.rdata.diaries)]
    /\ UNCHANGED <<db, req, out, ops, up>>

\* the statements of the account's sync to its end, and the tick's handler.
\* A sync that returns or raises with the session usable is logged and the
\* loop goes on.  A flush the database refuses rolls the session's
\* transaction back, which expires every object of the session, the Account
\* objects of the loop among them, and sync_account does not call rollback()
\* (see C16): the handler's logger.exception(..., account.nideriji_userid, e)
\* then has to load the attribute through the unusable session and raises
\* inside the except block; the exception leaves the loop and is caught and
\* logged by the outer handler, which ends the tick.
TickWrite ==
    /\ tasks.pc = "loaded"
    /\ \E settings \in SettingsWorlds :
          LET Done(r) ==
                  /\ db' = r.db
                  /\ tasks' =
                       [pc |-> IF r.exc = "pending_rollback"
                                  \/ tasks.i = Len(tasks.accounts)
                               THEN "done" ELSE "next",
                        accounts |-> tasks.accounts, i |-> tasks.i + 1,
                        calls |-> tasks.calls,
                        results |-> Append(tasks.results, r.exc)]
          IN  Done(AfterSuccessCommit(
                       SyncFinish(db, tasks.loaded, tasks.account,
                                  tasks.accounts[tasks.i], tasks.net,
                                  tasks.sync_log_id),
                       tasks.sync_log_id, settings))
    /\ UNCHANGED <<req, out, ops, up>>

\* a manual trigger syncs account 2 in its own session; it waits for the
\* account's lock while the tick is syncing that account
ManualSync ==
    /\ ops < MaxOps
    /\ ~(tasks.pc \in {"started", "loaded"} /\ tasks.accounts[tasks.i] = 2)
    /\ \E net \in ManualNets, settings \in SettingsWorlds :
          LET Done(r) ==
                  /\ db' = r.db
                  /\ out' = [op |-> "sync", status |-> r.status, exc |-> r.exc]
          IN  Done(sync_account(db, 2, net, settings))
    /\ ops' = ops + 1
    /\ UNCHANGED <<req, up, tasks>>

NextTick == TickBegin \/ TickCall \/ TickLoad \/ TickWrite \/ ManualSync

SpecTick == InitTick /\ [][NextTick]_vars

\* how many calls of sync_account the tick made for the account
TickCallsOf(account_id) ==
    Cardinality({k \in DOMAIN tasks.calls : tasks.calls[k] = account_id})

\* C32: when a tick has ended, every account that was active when it began
\* got exactly one sync_account call, in the order of the accounts,
\* whatever the earlier calls did
C32_EveryAccountAttempted ==
    tasks.pc = "done" =>
        /\ tasks.calls = tasks.accounts
        /\ \A k \in DOMAIN tasks.accounts :
              TickCallsOf(tasks.accounts[k]) = 1

\* the part of C32 the code upholds: as long as no sync of the tick left
\* the session unusable, every account is called once, in turn, after
\* failed syncs too, and an inactive account is never called
C32_WhileSessionUsable ==
    tasks.pc = "done" =>
        /\ (\A k \in DOMAIN tasks.results :
                tasks.results[k] # "pending_rollback")
              => tasks.calls = tasks.accounts
        /\ \A k \in DOMAIN tasks.calls :
              /\ TickCallsOf(tasks.calls[k]) = 1
              /\ tasks.calls[k] \in SeqToSet(tasks.accounts)

\* the sync of account 1 failed on its bulk call and account 2 was synced
\* after it
C32_FailureCase ==
    /\ tasks.pc = "done"
    /\ tasks.accounts = <<1, 2>>
    /\ tasks.calls = <<1, 2>>
    /\ tasks.results[1] = "http"
    /\ tasks.results[2] = "none"

\* the sync of account 1 left the session unusable and account 2 was not
\* called
C32_AbortedCase ==
    /\ tasks.pc = "done"
    /\ tasks.accounts = <<1, 2>>
    /\ tasks.calls = <<1>>
    /\ tasks.results = <<"pending_rollback">>

---------------------------------------------------------------------------
\* The token lifecycle wrappers by themselves: each is called with an
\* Account object that carries an email and a login_password attribute (or
\* lacks them), whose first call, login and retried call are answered in
\* every way.  The caller commits what the wrapper flushed.

\* the object of account 1 with the attributes the wrappers read
AccountObject(d, c) ==
    [AccountRow(d, 1) EXCEPT !.email = c.email,
                             !.login_password = c.login_password]

CallWrapper ==
    /\ req = Idle
    /\ ops < MaxOps
    /\ \E op \in {"fetch_for_account", "write_for_account"},
          c \in Credentials, net \in TokenNets :
          req' = [op |-> op, account |-> AccountObject(db, c), net |-> net]
    /\ out' = NoOut
    /\ ops' = ops + 1
    /\ UNCHANGED <<db, up, tasks>>

\* what a wrapper call leaves: r is the wrapper's result
WrapperDone(r) ==
    /\ db' = PutAccount(db, r.account)
    /\ out' = [op |-> req.op, call |-> req, before |-> db, exc |-> r.exc,
               logins |-> r.logins, calls |-> r.calls, account |-> r.account]
    /\ req' = Idle
    /\ UNCHANGED <<ops, up, tasks>>

RunFetchWrapper ==
    /\ req.op = "fetch_for_account"
    /\ WrapperDone(fetch_nideriji_data_for_account(req.account, req.net))

RunWriteWrapper ==
    /\ req.op = "write_for_account"
    /\ WrapperDone(write_diary_for_account(req.account, req.net))

NextWrapper == CallWrapper \/ RunFetchWrapper \/ RunWriteWrapper

SpecWrapper == Init /\ [][NextWrapper]_vars

WrapperCalled == out.op \in {"fetch_for_account", "write_for_account"}

\* the wrapper made its second call of the operation
Retried == WrapperCalled /\ Len(out.calls) = 2

\* the wrapper called login and login raised
LoginFailed ==
    /\ WrapperCalled
    /\ out.logins = 1
    /\ login_nideriji(out.call.net.login).exc # "none"

\* C33: in one invocation of a token lifecycle wrapper login is called at
\* most once and the wrapped operation at most twice, the second time only
\* after the one login, with the token it returned; a failure of the
\* retried call (a 401 among them) is what the wrapper raises, with nothing
\* called after it; a login that fails is what the wrapper raises, the
\* operation is not called again and the account's auth_token, on the
\* object and in its row, is as before
C33_LoginOnceRetryOnce ==
    WrapperCalled =>
        /\ out.logins <= 1
        /\ Len(out.calls) \in {1, 2}
        /\ out.calls[1] = out.call.account.auth_token
        /\ Retried =>
              /\ out.logins = 1
              /\ out.calls[2] = login_nideriji(out.call.net.login).token
              /\ out.exc = IF out.call.net.second = "200" THEN "none"
                           ELSE ExcOf(out.call.net.second)
        /\ LoginFailed =>
              /\ Len(out.calls) = 1
              /\ out.exc = login_nideriji(out.call.net.login).exc
              /\ out.account.auth_token = out.call.account.auth_token
              /\ AccountRow(db, 1) = AccountRow(out.before, 1)

\* the retried call was answered 401 and that is what was raised, after one
\* login and two calls
C33_Witness ==
    /\ Retried
    /\ out.call.net.first = "401"
    /\ out.call.net.second = "401"
    /\ out.logins = 1
    /\ out.exc = "http"

\* a login that failed, raised with the token unchanged
C33_WitnessLogin ==
    /\ LoginFailed
    /\ out.exc = "value"
    /\ AccountRow(db, 1).auth_token = OldToken

---------------------------------------------------------------------------
\* fetch_nideriji_diaries_by_ids as its loop: one request per batch of the
\* id list, each answered with a status or a network error

_DETAIL_FETCH_BATCH_SIZE == 50

MaxIds == 120

\* the id lists of the calls: 1..n ascending or descending
IdLists ==
    {[k \in 1..n |-> k] : n \in 0..MaxIds}
    \cup {[k \in 1..n |-> n + 1 - k] : n \in 0..MaxIds}

Min(a, b) == IF a < b THEN a ELSE b

\* a slice that runs one id into the next batch
BatchFrom_Overlapping(diary_ids, start) ==
    SubSeq(diary_ids, start + 1,
           Min(start + _DETAIL_FETCH_BATCH_SIZE + 1, Len(diary_ids)))

\* diary_ids[start : start + _DETAIL_FETCH_BATCH_SIZE], start counted from 0
BatchFrom(diary_ids, start) ==
    SubSeq(diary_ids, start + 1,
           Min(start + _DETAIL_FETCH_BATCH_SIZE, Len(diary_ids)))

InitByIds ==
    /\ db = InitDb
    /\ req = Idle
    /\ out = NoOut
    /\ ops = 0
    /\ up = 0
    /\ tasks = [pc |-> "idle"]

\* the call: an empty list returns at once, without a request
CallByIds ==
    /\ tasks.pc = "idle"
    /\ \E ids \in IdLists :
          tasks' = [pc |-> IF ids = <<>> THEN "returned" ELSE "loop",
                    diary_ids |-> ids, start |-> 0, requests |-> <<>>]
    /\ UNCHANGED <<db, req, out, ops, up>>

\* one pass of the loop: the batch is sent; raise_for_status or the retry
\* helper raises on a failure, which leaves the loop and the function
SendBatch ==
    /\ tasks.pc = "loop"
    /\ \E answer \in {"200", "500", "network"} :
          tasks' = [tasks EXCEPT
              !.requests = Append(@, BatchFrom(tasks.diary_ids, tasks.start)),
              !.start = @ + _DETAIL_FETCH_BATCH_SIZE,
              !.pc = IF answer # "200" THEN "raised"
                     ELSE IF tasks.start + _DETAIL_FETCH_BATCH_SIZE
                               >= Len(tasks.diary_ids)
                     THEN "returned" ELSE "loop"]
    /\ UNCHANGED <<db, req, out, ops, up>>

NextByIds == CallByIds \/ SendBatch

SpecByIds == InitByIds /\ [][NextByIds]_vars

RECURSIVE Concat(_)
Concat(seqs) == IF seqs = <<>> THEN <<>> ELSE Head(seqs) \o Concat(Tail(seqs))

\* ceil(n / 50)
CeilBatches(n) ==
    (n + _DETAIL_FETCH_BATCH_SIZE - 1) \div _DETAIL_FETCH_BATCH_SIZE

\* every request made so far carries between 1 and 50 ids, and the requests
\* in order carry the first ids of the list, each once, in the list's order
ChunksInOrder ==
    /\ \A k \in DOMAIN tasks.requests :
          Len(tasks.requests[k]) \in 1.._DETAIL_FETCH_BATCH_SIZE
    /\ Len(Concat(tasks.requests)) <= Len(tasks.diary_ids)
    /\ Concat(tasks.requests)
         = SubSeq(tasks.diary_ids, 1, Len(Concat(tasks.requests)))

C34_WitnessRaised ==
    /\ tasks.pc = "raised"
    /\ Len(tasks.diary_ids) = 101
    /\ Len(tasks.requests) = 1

---------------------------------------------------------------------------
\* Image prefetch: syncs whose diaries hold image placeholders, and the
\* detached tasks they create.  tasks is the list of the tasks created so
\* far, each pending until the event loop runs it.

WithImage == Long100 \o ImageRef("7", 1)

WithImageZero == Long150 \o ImageRef("0", 1)

ImageRecs ==
    [id : {1}, title : {"A", "B"}, content : {Long100, WithImage, WithImageZero},
     weather : {"sun"}, mood : {"ok"}, is_simple : {0}, msg_count : {0},
     ts : {1}]

\* a payload with a paired list but no partner makes the run fail after its
\* own diaries were stored
ImageNets ==
    [first : {"200"}, login : {OkLogin}, second : {"200"},
     rdata : [user_config : {OwnConfig},
              diaries : {<<r>> : r \in ImageRecs},
              diaries_paired : {<<>>, <<PairedRec>>}],
     details : [status : {"200"}, recs : [{1} -> {NoRec}]]]

\* the Settings object: without the image settings, with the two the sync
\* reads first, with the limit of images too, and with all four
PrefetchSettings ==
    {{}, ImageSettings,
     ImageSettings \cup {"image_cache_prefetch_max_images_per_sync"},
     ImageSettings \cup {"image_cache_prefetch_max_images_per_sync",
                         "image_cache_timeout_seconds"}}

\* the sync handler: sync_account, which may create a task before it
\* returns
RunSyncPrefetch ==
    /\ req.op = "sync"
    /\ \E settings \in PrefetchSettings :
          LET Done(r) ==
                  /\ db' = r.db
                  /\ out' = [op |-> "sync", call |-> req, before |-> db,
                             status |-> r.status, exc |-> r.exc,
                             sync_log_id |-> Len(db.logs) + 1,
                             scheduled |-> r.scheduled]
                  /\ tasks' = IF r.scheduled = <<>> THEN tasks
                              ELSE Append(tasks,
                                       [pc |-> "pending",
                                        account_id |-> req.account_id,
                                        diary_ids |-> r.scheduled,
                                        sync_log_id |-> Len(db.logs) + 1,
                                        settings |-> settings])
          IN  Done(sync_account(db, req.account_id, req.net, settings))
    /\ req' = Idle
    /\ UNCHANGED <<ops, up>>

\* the images _run collects from the rows of the task's diaries
RECURSIVE PrefetchTodo(_, _, _)
PrefetchTodo(d, task, i) ==
    IF i > Len(d.diaries) THEN <<>>
    ELSE (IF d.diaries[i].account_id = task.account_id
             /\ d.diaries[i].id \in SeqToSet(task.diary_ids)
          THEN extract_image_ids(d.diaries[i].content) ELSE <<>>)
         \o PrefetchTodo(d, task, i + 1)

\* the task _run, in a session of its own.  It returns when the account or
\* its token is gone or no image is left to fetch; otherwise it reads the
\* timeout setting and caches the images.  Whatever is raised inside is
\* caught and logged by the task itself; it writes image cache rows only.
PrefetchRun(k) ==
    /\ tasks[k].pc = "pending"
    /\ \E outcome \in {"cached", "failed"} :
          tasks' = [tasks EXCEPT ![k].pc =
              IF AccountById(db, tasks[k].account_id) = NoRow
                 \/ Unique(PrefetchTodo(db, tasks[k], 1)) = <<>>
              THEN "returned"
              ELSE IF "image_cache_timeout_seconds" \notin tasks[k].settings
              THEN "failed"
              ELSE outcome]
    /\ UNCHANGED <<db, req, out, ops, up>>

NextPrefetch ==
    \/ CallSync(ImageNets)
    \/ RunSyncPrefetch
    \/ \E k \in DOMAIN tasks : PrefetchRun(k)

SpecPrefetch == Init /\ [][NextPrefetch]_vars

\* a task was created in this step
TaskCreated == Len(tasks') = Len(tasks) + 1

C35_WitnessFailed ==
    /\ \E k \in DOMAIN tasks :
          /\ tasks[k].pc = "failed"
          /\ "image_cache_timeout_seconds" \in tasks[k].settings
          /\ LogOf(db, tasks[k].sync_log_id).status = "success"

---------------------------------------------------------------------------
\* Background publishing (background.py): schedule_publish_run starts a
\* task per call, the task reads the run's target accounts and publishes
\* for each of them through workers under a semaphore.  In these runs
\*   tasks.run       is the row of publish_diary_runs with id 1, or NoRow,
\*   tasks.items     the committed rows of publish_diary_run_items of the
\*                   run, by account id (NoRow: no row),
\*   tasks.registry  _publish_run_tasks[1] (0: no entry),
\*   tasks.list      the tasks created so far; a task's workers keep what
\*                   they read and wrote until the task's callback ran.

_publish_run_tasks == tasks.registry

PublishTargets == <<1, 2>>

NoItem == NoRow

UnknownItem(account_id) ==
    [id |-> account_id, status |-> "unknown", nideriji_diary_id |-> NoneStr,
     error_message |-> NoneStr, response_json |-> NoneStr]

\* an item a finished publish left as success
SuccessItem(account_id) ==
    [UnknownItem(account_id) EXCEPT !.status = "success",
                                    !.nideriji_diary_id = Str("3", 1),
                                    !.response_json = Str("j", 9)]

\* what the write endpoint answers: a failure, or a JSON object whose diary
\* has the id raw_id (NoneInt: the object holds no diary)
PublishNets ==
    {net \in [first : {"200", "401"}, login : {PaddedLogin},
              second : {"200"}, raw_id : {NoneInt, 7}] :
        net.first # "200" => net.raw_id = NoneInt}

\* str(raw_id) of a one-digit id
DiaryIdText(raw_id) ==
    IF raw_id = NoneInt THEN NoneStr
    ELSE Str(CHOOSE c \in Digits : DigitValue(c) = raw_id, 1)

\* select(Account).where(Account.is_active.is_(True), Account.id == account_id)
ActiveAccountById(d, account_id) ==
    IF AccountRow(d, account_id) = NoRow \/ ~AccountRow(d, account_id).is_active
    THEN NoRow
    ELSE AccountById(d, account_id)

\* a worker that publishes whatever the item's status is
PublishLoad_Always(d, item, account_id, force) ==
    LET account == ActiveAccountById(d, account_id)
        found == IF item = NoItem THEN UnknownItem(account_id) ELSE item
    IN  IF account = NoRow
        THEN [pc |-> "done", wrote |-> FALSE, read |-> found.status,
              account |-> NoRow,
              item |-> [found EXCEPT !.status = "failed",
                                     !.error_message = Str("x", 10),
                                     !.nideriji_diary_id = NoneStr,
                                     !.response_json = NoneStr]]
        ELSE [pc |-> "writing", wrote |-> FALSE, read |-> found.status,
              account |-> account,
              item |-> [found EXCEPT !.status = "running",
                                     !.error_message = NoneStr,
                                     !.nideriji_diary_id = NoneStr,
                                     !.response_json = NoneStr]]

\* _publish_one_account_in_background up to the commit of running: item is
\* the committed row or NoItem; the result's item is the row the worker
\* leaves committed (NoItem: none; a row added and flushed before a return
\* is rolled back when the session closes)
PublishLoad(d, item, account_id, force) ==
    LET account == ActiveAccountById(d, account_id)
        found == IF item = NoItem THEN UnknownItem(account_id) ELSE item
    IN  IF ~force /\ found.status = "success"
        THEN [pc |-> "done", wrote |-> FALSE, read |-> found.status,
              account |-> account, item |-> item]
        ELSE IF account = NoRow
        THEN [pc |-> "done", wrote |-> FALSE, read |-> found.status,
              account |-> NoRow,
              item |-> [found EXCEPT !.status = "failed",
                                     !.error_message = Str("x", 10),
                                     !.nideriji_diary_id = NoneStr,
                                     !.response_json = NoneStr]]
        ELSE [pc |-> "writing", wrote |-> FALSE, read |-> found.status,
              account |-> account,
              item |-> [found EXCEPT !.status = "running",
                                     !.error_message = NoneStr,
                                     !.nideriji_diary_id = NoneStr,
                                     !.response_json = NoneStr]]

\* the rest of it: the upstream write, the item's fields and the commit; r
\* is what write_diary_for_account returned or raised
PublishFinish(item, r, raw_id) ==
    LET set == IF r.exc = "none"
               THEN [item EXCEPT !.status = "success",
                                 !.nideriji_diary_id = DiaryIdText(raw_id),
                                 !.error_message = NoneStr,
                                 !.response_json = Str("j", 9)]
               ELSE [item EXCEPT !.status = "failed",
                                 !.error_message = Str("x", 10)]
    IN  IF set.status # "success"
        THEN [set EXCEPT !.nideriji_diary_id = NoneStr,
                         !.response_json = NoneStr]
        ELSE set

InitPublish ==
    /\ \E active \in BOOLEAN :
          db = [InitDbTwo EXCEPT !.accounts[2].is_active = active]
    /\ \E run \in {NoRow, [id |-> 1, target_account_ids |-> PublishTargets]},
          i1 \in {NoItem, SuccessItem(1)} :
          tasks = [run |-> run, items |-> <<i1, UnknownItem(2)>>,
                   registry |-> 0, list |-> <<>>]
    /\ req = Idle
    /\ out = NoOut
    /\ ops = 0
    /\ up = 0

\* task.done()
TaskDone(t) == tasks.list[t].pc \in {"finished", "closed"}

LiveTasks == {t \in DOMAIN tasks.list : ~TaskDone(t)}

\* the done callback that removes the run's entry whatever it refers to
_on_done_Any(registry, t) == 0

\* _on_done: the entry is popped when it is the task that finished
_on_done(registry, t) == IF registry = t THEN 0 ELSE registry

\* schedule_publish_run(run_id=1, concurrency, force): it has no await, so
\* the whole call is one step
SchedulePublish ==
    /\ ops < MaxOps
    /\ \E force \in BOOLEAN, concurrency \in {1, 3} :
          LET existing == _publish_run_tasks
              running == existing # 0 /\ ~TaskDone(existing)
              task == Len(tasks.list) + 1
          IN  /\ tasks' =
                    IF running THEN tasks
                    ELSE [tasks EXCEPT
                            !.registry = task,
                            !.list = Append(@, [pc |-> "created",
                                                force |-> force,
                                                concurrency |-> concurrency,
                                                workers |-> <<>>])]
              /\ out' = [op |-> "schedule", scheduled |-> ~running,
                         already_running |-> running, live |-> LiveTasks,
                         created |-> IF running THEN 0 ELSE task]
    /\ ops' = ops + 1
    /\ UNCHANGED <<db, req, up>>

\* _run_publish_run up to the gather: the run and its target ids are read;
\* without a run, or without ids, the task returns
TaskStart(t) ==
    /\ tasks.list[t].pc = "created"
    /\ tasks' = [tasks EXCEPT !.list[t] =
          IF tasks.run = NoRow \/ tasks.run.target_account_ids = <<>>
          THEN [@ EXCEPT !.pc = "finished"]
          ELSE [@ EXCEPT !.pc = "workers",
                         !.workers = [i \in DOMAIN tasks.run.target_account_ids |->
                                        [pc |-> "waiting"]]]]
    /\ UNCHANGED <<db, req, out, ops, up>>

\* max(1, min(int(concurrency or 1), 10, len(ids)))
max_concurrency(concurrency, n) ==
    LET least == IF concurrency < n THEN concurrency ELSE n
    IN  IF least < 1 THEN 1 ELSE IF least > 10 THEN 10 ELSE least

\* a worker takes the semaphore and runs to the commit of running, or to
\* its return
WorkerBegin(t, i) ==
    /\ tasks.list[t].pc = "workers"
    /\ tasks.list[t].workers[i].pc = "waiting"
    /\ Cardinality({j \in DOMAIN tasks.list[t].workers :
                       tasks.list[t].workers[j].pc = "writing"})
          < max_concurrency(tasks.list[t].concurrency,
                            Len(tasks.run.target_account_ids))
    /\ LET account_id == tasks.run.target_account_ids[i]
           Done(r) ==
               tasks' = [tasks EXCEPT !.items[account_id] = r.item,
                                      !.list[t].workers[i] =
                                          [r EXCEPT !.item = account_id]]
       IN  Done(PublishLoad(db, tasks.items[account_id], account_id,
                            tasks.list[t].force))
    /\ UNCHANGED <<db, req, out, ops, up>>

\* the worker's upstream write, the item's result and the commit, which
\* also writes a token the wrapper renewed
WorkerWrite(t, i) ==
    /\ tasks.list[t].pc = "workers"
    /\ tasks.list[t].workers[i].pc = "writing"
    /\ \E net \in PublishNets :
          LET w == tasks.list[t].workers[i]
              Done(r) ==
                  /\ db' = PutAccount(db, r.account)
                  /\ tasks' = [tasks EXCEPT
                        !.items[w.item] = PublishFinish(tasks.items[w.item], r,
                                                        net.raw_id),
                        !.list[t].workers[i] =
                            [pc |-> "done", wrote |-> TRUE, read |-> w.read,
                             account |-> r.account, item |-> w.item,
                             committed |-> tasks.items[w.item].status,
                             exc |-> r.exc]]
          IN  Done(write_diary_for_account(w.account, net))
    /\ UNCHANGED <<req, out, ops, up>>

\* the gather returns when every worker has: the task is done and its done
\* callback is scheduled
TaskFinish(t) ==
    /\ tasks.list[t].pc = "workers"
    /\ \A i \in DOMAIN tasks.list[t].workers : tasks.list[t].workers[i].pc = "done"
    /\ tasks' = [tasks EXCEPT !.list[t].pc = "finished"]
    /\ UNCHANGED <<db, req, out, ops, up>>

\* the event loop runs the task's done callback
OnDone(t) ==
    /\ tasks.list[t].pc = "finished"
    /\ tasks' = [tasks EXCEPT !.list[t] = [pc |-> "closed"],
                              !.registry = _on_done(@, t)]
    /\ UNCHANGED <<db, req, out, ops, up>>

NextPublish ==
    \/ SchedulePublish
    \/ \E t \in DOMAIN tasks.list :
          \/ TaskStart(t)
          \/ TaskFinish(t)
          \/ OnDone(t)
          \/ \E i \in DOMAIN PublishTargets : WorkerBegin(t, i) \/ WorkerWrite(t, i)

SpecPublish == InitPublish /\ [][NextPublish]_vars

PublishRun == "items" \in DOMAIN tasks

\* the tasks whose workers run or have returned
WorkingTasks ==
    {t \in DOMAIN tasks.list :
        tasks.list[t].pc # "closed" /\ tasks.list[t].workers # <<>>}

\* the workers that have returned
ReturnedWorkers ==
    {p \in WorkingTasks \X (DOMAIN PublishTargets) :
        tasks.list[p[1]].workers[p[2]].pc = "done"}

\* the workers that made an upstream write
Writers == {p \in ReturnedWorkers : tasks.list[p[1]].workers[p[2]].wrote}

\* what holds of the writes made, the workers returned and the committed
\* items in every state
PublishBookkeeping ==
    PublishRun =>
        /\ \A p \in Writers :
              /\ ~(tasks.list[p[1]].workers[p[2]].read = "success"
                    /\ ~tasks.list[p[1]].force)
              /\ tasks.list[p[1]].workers[p[2]].committed = "running"
        /\ \A p \in ReturnedWorkers :
              LET w == tasks.list[p[1]].workers[p[2]]
              IN  IF w.read = "success" /\ ~tasks.list[p[1]].force
                  THEN ~w.wrote
                  ELSE tasks.items[w.item].status \in {"success", "failed", "running"}
                       /\ (tasks.items[w.item].status = "running" =>
                              \E q \in WorkingTasks :
                                 tasks.list[q].workers[p[2]].pc = "writing")
        /\ \A a \in DOMAIN tasks.items :
              tasks.items[a] # NoItem /\ tasks.items[a].status # "success" =>
                  /\ tasks.items[a].nideriji_diary_id = NoneStr
                  /\ tasks.items[a].response_json = NoneStr

\* each step of a worker that is not skipped leaves the item committed as
\* running (before the write) or as success or failed (at its return)
WorkerSteps ==
    \A t \in DOMAIN tasks.list : \A i \in DOMAIN PublishTargets :
          /\ WorkerBegin(t, i) =>
                LET w == tasks'.list[t].workers[i]
                IN  IF w.read = "success" /\ ~tasks.list[t].force
                    THEN tasks'.items = tasks.items /\ w.pc = "done"
                    ELSE tasks'.items[w.item].status =
                            IF w.pc = "writing" THEN "running" ELSE "failed"
          /\ WorkerWrite(t, i) =>
                tasks'.items[tasks.list[t].workers[i].item].status
                    \in {"success", "failed"}

\* C36: background publishing for one (run, account) item makes no upstream
\* write when the item it read has status success and force is false;
\* otherwise the committed item is running when the upstream write is made,
\* the worker returns with the item committed as success or failed, and a
\* committed item whose status is not success has nideriji_diary_id and
\* response_json null
C36_PublishBookkeeping == []PublishBookkeeping /\ [][WorkerSteps]_vars

\* a forced publish of an item that was success failed upstream: the item
\* is committed failed with both fields null
C36_Witness ==
    /\ PublishRun
    /\ \E p \in Writers :
          /\ tasks.list[p[1]].workers[p[2]].read = "success"
          /\ tasks.list[p[1]].force
          /\ tasks.list[p[1]].workers[p[2]].exc # "none"
          /\ tasks.items[p[2]].status = "failed"
          /\ tasks.items[p[2]].nideriji_diary_id = NoneStr

\* a worker returned without a write from an item that was success
C36_WitnessSkipped ==
    /\ PublishRun
    /\ \E p \in ReturnedWorkers :
          /\ tasks.list[p[1]].workers[p[2]].read = "success"
          /\ ~tasks.list[p[1]].force
          /\ ~tasks.list[p[1]].workers[p[2]].wrote
          /\ tasks.items[p[2]] = SuccessItem(p[2])

\* the live tasks, the registry and the last call's answer in every state
OneLiveTask ==
    PublishRun =>
        /\ Cardinality(LiveTasks) <= 1
        /\ \A t \in LiveTasks : _publish_run_tasks = t
        /\ out.op = "schedule" =>
              /\ out.already_running = (out.live # {})
              /\ out.scheduled = ~out.already_running
              /\ out.already_running => out.created = 0
              /\ ~out.already_running =>
                    out.created # 0 /\ out.created \notin out.live

\* the callback of a task changes the registry only from that task to none
CallbackOwnEntry ==
    \A t \in DOMAIN tasks.list :
          OnDone(t) =>
              IF _publish_run_tasks = t THEN tasks'.registry = 0
              ELSE tasks'.registry = tasks.registry

\* C37: schedule_publish_run keeps at most one live task per run id: a call
\* made while a task of the run has not finished returns already_running
\* and starts none; a finished task's callback removes the registry entry
\* only when the entry is that task, so the entry of a live task stays and
\* a call after the task finished schedules a new one
C37_OneLiveTask == []OneLiveTask /\ [][CallbackOwnEntry]_vars

\* a second task was scheduled after the first finished and before the
\* first's callback ran; the callback then left the second's entry
C37_Witness ==
    /\ PublishRun
    /\ Len(tasks.list) = 2
    /\ tasks.list[1].pc = "closed"
    /\ 2 \in LiveTasks
    /\ _publish_run_tasks = 2

\* a call found a live task and started none
C37_WitnessRunning ==
    /\ PublishRun
    /\ out.op = "schedule"
    /\ out.already_running
    /\ Len(tasks.list) = 1

---------------------------------------------------------------------------
\* Re-sync: a second sync_account of account 1 against the upstream that
\* answered the first

\* the Diary rows' title, content and msg_count
DiaryTexts(d) ==
    [i \in DOMAIN d.diaries |->
        [title |-> d.diaries[i].title, content |-> d.diaries[i].content,
         msg_count |-> d.diaries[i].msg_count]]

\* the finished call is a sync that started from what a first sync against
\* the same upstream answers had left
Resynced ==
    /\ out.op = "sync"
    /\ \E settings \in SettingsWorlds :
          out.before = sync_account(InitDb, 1, out.call.net, settings).db

\* C38: a second sync_account against an unchanged upstream (same bulk
\* payload, same detail responses) changes no Diary title, content or
\* msg_count and appends no DiaryHistory row and no DiaryMsgCountEvent row
C38_ResyncIdempotent ==
    Resynced =>
        /\ DiaryTexts(db) = DiaryTexts(out.before)
        /\ db.history = out.before.history
        /\ db.events = out.before.events

---------------------------------------------------------------------------
\* Failed runs: what a sync_account that ended with status failed left

\* the record of diary 1 and a record of a second diary whose date
\* strptime refuses
FirstRec(title) ==
    [id |-> 1, title |-> title, content |-> Short99, weather |-> "sun",
     mood |-> "ok", is_simple |-> 0, msg_count |-> 0, ts |-> 1,
     createddate |-> WellFormedDate]

SecondRec ==
    [id |-> 2, title |-> "C", content |-> Long100, weather |-> "sun",
     mood |-> "ok", is_simple |-> 0, msg_count |-> 0, ts |-> 1,
     createddate |-> SlashDate]

\* upstream answers with at most one fault: the bulk call refused, the
\* detail request refused, a paired list without a partner, a second
\* record with a malformed date; the user's name is the stored one or new
FailedNets ==
    {net \in [first : {"200", "500"}, login : {OkLogin}, second : {"200"},
              rdata : [user_config : {OwnConfig, [OwnConfig EXCEPT !.name = "we"]},
                       diaries : {<<FirstRec(t)>> : t \in {"A", "B"}}
                                 \cup {<<FirstRec(t), SecondRec>> : t \in {"A", "B"}},
                       diaries_paired : {<<>>, <<PairedRec>>}],
              details : [status : {"200", "500"}, recs : [{1} -> {NoRec}]]] :
        Cardinality({f \in {"first", "details", "paired", "second"} :
            \/ f = "first" /\ net.first = "500"
            \/ f = "details" /\ net.details.status = "500"
            \/ f = "paired" /\ net.rdata.diaries_paired # <<>>
            \/ f = "second" /\ Len(net.rdata.diaries) = 2}) <= 1}

NextFailed == CallSync(FailedNets) \/ RunSync

SpecFailed == Init /\ [][NextFailed]_vars

\* the rows of the tables other than accounts and sync_logs
DataTables(d) ==
    [diaries |-> d.diaries, history |-> d.history, events |-> d.events,
     fetches |-> d.fetches, users |-> d.users, pairs |-> d.pairs]

FailedSync == out.op = "sync" /\ out.status = "failed"

\* C39: a sync_account run that ends with status failed persists none of
\* the changes it made to Diary, DiaryHistory, DiaryMsgCountEvent,
\* DiaryDetailFetch, User or PairedRelationship rows; only its SyncLog row
\* is committed
C39_FailedRunKeepsNothing ==
    FailedSync => DataTables(db) = DataTables(out.before)

\* a run that failed before its success commit and whose changes are stored
C39_PartialCase ==
    /\ FailedSync
    /\ "finish_success" \notin SeqToSet(out.steps)
    /\ DataTables(db) # DataTables(out.before)

---------------------------------------------------------------------------
\* Two accounts that are each other's partner sync one after the other:
\* diary 1, written by account 1's user, is in account 1's own list and in
\* account 2's paired list

IsolationNets(account_id) ==
    {IF account_id = 1 THEN FirstNet(content, msg_count)
     ELSE PartnerNet(content, msg_count) :
        content \in {Short99, Long100, Long150}, msg_count \in {0, MaxMsg}}

InitIsolation ==
    /\ db = InitDbTwo
    /\ req = Idle
    /\ out = NoOut
    /\ ops = 0
    /\ up = 0
    /\ tasks = <<>>

\* a sync of one of the accounts is triggered
CallSyncOf(account_id) ==
    /\ req = Idle
    /\ ops < MaxOps
    /\ \E net \in IsolationNets(account_id) :
          req' = [op |-> "sync", account_id |-> account_id, net |-> net]
    /\ out' = NoOut
    /\ ops' = ops + 1
    /\ UNCHANGED <<db, up, tasks>>

NextIsolation == CallSyncOf(1) \/ CallSyncOf(2) \/ RunSync

SpecIsolation == InitIsolation /\ [][NextIsolation]_vars

\* the Diary rows stored before the finished sync under another account
OthersRows ==
    {i \in DOMAIN out.before.diaries :
        out.before.diaries[i].account_id # out.call.account_id}

\* the rows of a table (with a diary_id column) that belong to the diaries ids
RowsOf(table, ids) == LET P(r) == r.diary_id \in ids IN SelectSeq(table, P)

\* C40: a sync of account B changes no title, content or msg_count of a
\* Diary row whose account_id is another account A and appends no
\* DiaryHistory or DiaryMsgCountEvent row for it, also when B's payload
\* contains the same upstream diary id; no Diary row's account_id changes
\* after insertion
C40_CrossAccountIsolation ==
    out.op = "sync" =>
        /\ \A i \in OthersRows :
              /\ db.diaries[i].id = out.before.diaries[i].id
              /\ db.diaries[i].title = out.before.diaries[i].title
              /\ db.diaries[i].content = out.before.diaries[i].content
              /\ db.diaries[i].msg_count = out.before.diaries[i].msg_count
        /\ LET ids == {out.before.diaries[i].id : i \in OthersRows}
           IN  /\ RowsOf(db.history, ids) = RowsOf(out.before.history, ids)
               /\ RowsOf(db.events, ids) = RowsOf(out.before.events, ids)
        /\ \A i \in DOMAIN out.before.diaries :
              db.diaries[i].account_id = out.before.diaries[i].account_id

\* what the code keeps of it: the other account's row keeps its msg_count
\* and its account_id and gets no DiaryMsgCountEvent row
C40_CountAndOwnerKept ==
    out.op = "sync" =>
        /\ \A i \in OthersRows :
              /\ db.diaries[i].id = out.before.diaries[i].id
              /\ db.diaries[i].msg_count = out.before.diaries[i].msg_count
        /\ LET ids == {out.before.diaries[i].id : i \in OthersRows}
           IN  RowsOf(db.events, ids) = RowsOf(out.before.events, ids)
        /\ \A i \in DOMAIN out.before.diaries :
              db.diaries[i].account_id = out.before.diaries[i].account_id

\* the partner's sync replaced the content of the row of account 1 and
\* wrote a history row, while its payload's new count was not stored
C40_ForeignChangeCase ==
    /\ out.op = "sync"
    /\ out.call.account_id = 2
    /\ 1 \in OthersRows
    /\ db.diaries[1].content # out.before.diaries[1].content
    /\ Len(db.history) = Len(out.before.history) + 1
    /\ out.call.net.rdata.diaries_paired[1].msg_count # db.diaries[1].msg_count

====
